---- MODULE Spec2Model ----
(***************************************************************************)
(* A model of the semantic reconstruction layer of the PDF -> Word         *)
(* converter: FontAnalyzer, LayoutAnalyzer, SemanticAnalyzer and           *)
(* TableExtractor (_collapse_empty_columns, extract, _detect_header_row    *)
(* and _detect_cell_background), of CorrectionEngine.apply_fixes with its  *)
(* font-size handler, of the element loop of DocxBuilder.build, and of     *)
(* the job lifecycle of the web ConverterService with its routes.          *)
(*                                                                         *)
(* Conventions.  A Python string is a sequence of one-character strings.   *)
(* Lengths in points are integers; every comparison against a fractional   *)
(* threshold of the source is written with both sides multiplied by the    *)
(* threshold's denominator (size/body >= 1.4 is 100*size >= 140*body).     *)
(* A Python list is a sequence, a dict is a sequence of entries in         *)
(* insertion order (the order Python iterates it in).                      *)
(*                                                                         *)
(* Each component has its own specification (SpecFont, SpecLayout, ...)    *)
(* over the same variables; a component's specification leaves the other   *)
(* components' variables at their idle value.                              *)
(***************************************************************************)
EXTENDS Integers, Sequences, FiniteSets, TLC

VARIABLES
    pc,                  \* position of the running component
    text_blocks,         \* the text spans handed to the component
    font_size_counter,   \* FontAnalyzer.analyze: Counter of (font, size)
    body_font,           \* FontAnalyzer.analyze: {"name", "size"}
    heading_fonts,       \* FontAnalyzer.analyze: list of {"name","size","level"}
    page_width,          \* width of the page in points
    page_height,         \* height of the page in points
    clusters,            \* LayoutAnalyzer.analyze: clusters of x0 values
    layout,              \* LayoutAnalyzer.analyze: the returned dict
    rows,                \* _collapse_empty_columns: the raw grid
    filtered_rows,       \* _collapse_empty_columns: the working grid
    table_result,        \* _collapse_empty_columns: the returned grid
    page_count,          \* _detect_headers_footers: number of pages
    pages_meta,          \* _detect_headers_footers: per-page metadata
    header_set,          \* _detect_headers_footers: texts classified header
    footer_set,          \* _detect_headers_footers: texts classified footer
    header_texts,        \* _detect_headers_footers: returned seen_headers
    footer_texts,        \* _detect_headers_footers: returned seen_footers
    filtered_blocks,     \* _detect_headers_footers: returned filtered list
    body_x0,             \* _process_text_blocks: left margin of body text
    groups,              \* _process_text_blocks: the spans of each element
    elements,            \* the list of elements produced so far
    regrouped,           \* the groups made of the spans of each group
    links,               \* the links of the document
    num_columns,         \* analyze: the page's columns after validation
    images,              \* analyze: the images of the document
    tables,              \* analyze: the tables of the document
    all_page_nums,       \* analyze: the pages that have content
    prev_page,           \* analyze: the page processed last, -1 for None
    fitz_page,           \* TableExtractor.extract: the page and its tables
    table_index,         \* TableExtractor.extract: tables processed so far
    results,             \* TableExtractor.extract: the list being returned
    document,            \* CorrectionEngine: the paragraphs of self._doc
    differences,         \* apply_fixes: the differences handed in
    valid_diffs,         \* apply_fixes: the differences that passed validation
    diff_index,          \* apply_fixes: differences handled so far
    fixes_applied,       \* CorrectionEngine: self._fixes_applied
    saved,               \* apply_fixes: whether self._doc.save was called
    header_input,        \* _detect_header_row: the table, its rows, the spans
    header_row,          \* _detect_header_row: the returned flag
    cell_page,           \* _detect_cell_background: the drawings and the cell
    draw_index,          \* _detect_cell_background: drawings visited so far
    best_fill,           \* _detect_cell_background: best_fill, then the result
    best_area,           \* _detect_cell_background: best_area
    build_idx,           \* DocxBuilder.build: idx of the loop
    docx_body,           \* DocxBuilder.build: what was added to the document
    jobs,                \* ConverterService._jobs: the ids in the dict
    job_objects,         \* the ConversionJob objects, by id
    requests,            \* upload_and_convert: where each request is
    threads,             \* _run_conversion: where each worker thread is
    streams              \* job_status_sse: the generators, by job id

fontVars == <<font_size_counter, body_font, heading_fonts>>
layoutVars == <<page_width, page_height, clusters, layout>>
tableVars == <<rows, filtered_rows, table_result>>
hfVars == <<page_count, pages_meta, header_set, footer_set, header_texts,
            footer_texts, filtered_blocks>>
groupVars == <<body_x0, groups, elements, regrouped>>
docVars == <<images, tables, all_page_nums, prev_page>>
semVars == <<hfVars, groupVars, links, num_columns, docVars>>
extractVars == <<fitz_page, table_index, results>>
fixVars == <<document, differences, valid_diffs, diff_index, fixes_applied, saved>>
styleVars == <<header_input, header_row, cell_page, draw_index, best_fill, best_area>>
buildVars == <<build_idx, docx_body>>
webVars == <<jobs, job_objects, requests, threads, streams>>

vars == <<pc, text_blocks, fontVars, layoutVars, tableVars, semVars,
          extractVars, fixVars, styleVars, buildVars, webVars>>

Idle == <<>>

FontIdle ==
    /\ font_size_counter = Idle
    /\ body_font = Idle
    /\ heading_fonts = Idle

LayoutIdle ==
    /\ page_width = 0
    /\ page_height = 0
    /\ clusters = Idle
    /\ layout = Idle

TableIdle ==
    /\ rows = Idle
    /\ filtered_rows = Idle
    /\ table_result = Idle

ExtractIdle ==
    /\ fitz_page = Idle
    /\ table_index = 0
    /\ results = Idle

WebIdle ==
    /\ jobs = {}
    /\ job_objects = Idle
    /\ requests = Idle
    /\ threads = Idle
    /\ streams = Idle

BuildIdle ==
    /\ build_idx = 0
    /\ docx_body = Idle

StyleIdle ==
    /\ header_input = Idle
    /\ header_row = FALSE
    /\ cell_page = Idle
    /\ draw_index = 0
    /\ best_fill = Idle
    /\ best_area = 0

FixIdle ==
    /\ document = Idle
    /\ differences = Idle
    /\ valid_diffs = Idle
    /\ diff_index = 0
    /\ fixes_applied = 0
    /\ saved = FALSE

HFIdle ==
    /\ page_count = 0
    /\ pages_meta = Idle
    /\ header_set = {}
    /\ footer_set = {}
    /\ header_texts = Idle
    /\ footer_texts = Idle
    /\ filtered_blocks = Idle

GroupIdle ==
    /\ body_x0 = 0
    /\ groups = Idle
    /\ elements = Idle
    /\ regrouped = Idle

DocIdle ==
    /\ images = Idle
    /\ tables = Idle
    /\ all_page_nums = {}
    /\ prev_page = 0 - 1

SemIdle == HFIdle /\ GroupIdle /\ links = Idle /\ num_columns = 0 /\ DocIdle

(***************************************************************************)
(* Generic helpers                                                         *)
(***************************************************************************)
Max(a, b) == IF a >= b THEN a ELSE b
Min(a, b) == IF a <= b THEN a ELSE b
Abs(a) == IF a >= 0 THEN a ELSE 0 - a

SeqsUpTo(S, n) == UNION {[1..k -> S] : k \in 0..n}

UpperCase == {"A", "B", "C", "D", "E", "F", "T", "H", "V"}

\* The whitespace characters str.strip() and str.lstrip() remove.
Whitespace == {" ", "\n", "\t"}

\* str.lstrip()
LStrip(str) ==
    LET n == Cardinality({i \in 1..Len(str) :
                            \A j \in 1..i : str[j] \in Whitespace})
    IN  SubSeq(str, n + 1, Len(str))

\* str.rstrip()
RStrip(str) ==
    LET n == Cardinality({i \in 1..Len(str) :
                            \A j \in i..Len(str) : str[j] \in Whitespace})
    IN  SubSeq(str, 1, Len(str) - n)

\* str.strip()
Strip(str) == RStrip(LStrip(str))

Span(text, font, size, bold, italic, x0, y0, x1, y1, page_num) ==
    [text |-> text, font |-> font, size |-> size, bold |-> bold,
     italic |-> italic, x0 |-> x0, y0 |-> y0, x1 |-> x1, y1 |-> y1,
     page_num |-> page_num]

(***************************************************************************)
(* FontAnalyzer                                                            *)
(***************************************************************************)
\* Heading thresholds of size / body size, in hundredths.
HEADING1_RATIO == 140
HEADING2_RATIO == 120
HEADING3_RATIO == 105

\* _SUBSET_PREFIX_RE = ^[A-Z]{6}\+ removed from the font name.
StripSubsetPrefix(font_name) ==
    IF /\ Len(font_name) >= 7
       /\ \A i \in 1..6 : font_name[i] \in UpperCase
       /\ font_name[7] = "+"
    THEN SubSeq(font_name, 8, Len(font_name))
    ELSE font_name

\* The variant that counts spans instead of characters.
TextLenPerSpan(block) == 1

\* text_len = max(len(block.get("text", "")), 1)
TextLen(block) == Max(Len(block.text), 1)

FontKey(block) == [font |-> StripSubsetPrefix(block.font), size |-> block.size]

\* Counter[key] += n, keeping the insertion order of the keys.
CounterAdd(counter, key, n) ==
    IF \E i \in 1..Len(counter) : counter[i].key = key
    THEN [i \in 1..Len(counter) |->
            IF counter[i].key = key
            THEN [key |-> key, weight |-> counter[i].weight + n]
            ELSE counter[i]]
    ELSE Append(counter, [key |-> key, weight |-> n])

\* Step 1 of FontAnalyzer.analyze: the loop over text_blocks.
RECURSIVE CountFonts(_)
CountFonts(blocks) ==
    IF blocks = <<>> THEN <<>>
    ELSE LET n == Len(blocks)
         IN  CounterAdd(CountFonts(SubSeq(blocks, 1, n - 1)),
                        FontKey(blocks[n]), TextLen(blocks[n]))

\* The variant that takes the last entry of the largest count.
MostCommonLast(counter) ==
    LET i == CHOOSE i \in 1..Len(counter) :
                /\ \A j \in 1..Len(counter) : counter[j].weight <= counter[i].weight
                /\ \A j \in (i + 1)..Len(counter) : counter[j].weight < counter[i].weight
    IN  counter[i]

\* Counter.most_common(1)[0]: the first entry, in insertion order, of the
\* largest count.
MostCommon(counter) ==
    LET i == CHOOSE i \in 1..Len(counter) :
                /\ \A j \in 1..Len(counter) : counter[j].weight <= counter[i].weight
                /\ \A j \in 1..(i - 1) : counter[j].weight < counter[i].weight
    IN  counter[i]

\* bold_lookup[(font, size)]: some block of the combination is bold.
BoldLookup(blocks, key) ==
    \E i \in 1..Len(blocks) : FontKey(blocks[i]) = key /\ blocks[i].bold

\* The variant that forgets the bold requirement of level 3.
HeadingLevelNoBold(size, body_size, is_bold) ==
    IF size <= body_size THEN 0
    ELSE IF 100 * size >= HEADING1_RATIO * body_size THEN 1
    ELSE IF 100 * size >= HEADING2_RATIO * body_size THEN 2
    ELSE IF 100 * size >= HEADING3_RATIO * body_size THEN 3
    ELSE 0

\* The variant that numbers the levels the other way round.
HeadingLevelReversed(size, body_size, is_bold) ==
    IF size <= body_size THEN 0
    ELSE IF 100 * size >= HEADING1_RATIO * body_size THEN 3
    ELSE IF 100 * size >= HEADING2_RATIO * body_size THEN 2
    ELSE IF 100 * size >= HEADING3_RATIO * body_size /\ is_bold THEN 1
    ELSE 0

\* The level of one (font, size) combination, 0 when it is skipped.
HeadingLevel(size, body_size, is_bold) ==
    IF size <= body_size THEN 0
    ELSE IF 100 * size >= HEADING1_RATIO * body_size THEN 1
    ELSE IF 100 * size >= HEADING2_RATIO * body_size THEN 2
    ELSE IF 100 * size >= HEADING3_RATIO * body_size /\ is_bold THEN 3
    ELSE 0

\* list.sort(key = (level, -size)): a stable insertion sort.
HeadingBefore(a, b) ==
    \/ a.level < b.level
    \/ a.level = b.level /\ a.size > b.size

RECURSIVE SortHeadings(_)
SortHeadings(hs) ==
    IF Len(hs) <= 1 THEN hs
    ELSE LET n == Len(hs)
             init == SortHeadings(SubSeq(hs, 1, n - 1))
             x == hs[n]
             \* x goes after the last element that is not after it.
             k == Cardinality({i \in 1..Len(init) : ~HeadingBefore(x, init[i])})
         IN  SubSeq(init, 1, k) \o <<x>> \o SubSeq(init, k + 1, Len(init))

\* The heading list before sorting: the loop over font_size_counter.
RECURSIVE HeadingCandidates(_, _, _)
HeadingCandidates(blocks, counter, body_size) ==
    IF counter = <<>> THEN <<>>
    ELSE LET n == Len(counter)
             key == counter[n].key
             level == HeadingLevel(key.size, body_size, BoldLookup(blocks, key))
             init == HeadingCandidates(blocks, SubSeq(counter, 1, n - 1), body_size)
         IN  IF level = 0 THEN init
             ELSE Append(init, [name |-> key.font, size |-> key.size, level |-> level])

DetectHeadingFonts(blocks, counter, body_size) ==
    IF body_size <= 0 THEN <<>>
    ELSE SortHeadings(HeadingCandidates(blocks, counter, body_size))

(***************************************************************************)
(* The font specification: FontAnalyzer.analyze on a list of blocks        *)
(***************************************************************************)
MaxFontBlocks == 3

FontSizes == {20, 21, 22, 24, 28}

\* (text, font) of a block: prose set in a subset-prefixed font, and an
\* empty label (weight 1) in the plain font of the same name.
FontFaces == {<<<<"a", "b">>, <<"A", "B", "C", "D", "E", "F", "+", "T">>>>,
              <<<<>>, <<"T">>>>}

FontBlocks ==
    {Span(ft[1], ft[2], s, b, FALSE, 0, 0, 0, 0, 0) :
        ft \in FontFaces, s \in FontSizes, b \in BOOLEAN}

InitFont ==
    /\ pc = "font_start"
    /\ text_blocks \in SeqsUpTo(FontBlocks, MaxFontBlocks)
    /\ font_size_counter = Idle
    /\ body_font = Idle
    /\ heading_fonts = Idle
    /\ LayoutIdle
    /\ TableIdle
    /\ ExtractIdle
    /\ FixIdle
    /\ StyleIdle
    /\ BuildIdle
    /\ WebIdle
    /\ SemIdle

\* FontAnalyzer.analyze on an empty list: the default profile.
FontEmpty ==
    /\ pc = "font_start"
    /\ text_blocks = <<>>
    /\ body_font' = [name |-> <<"A", "r", "i", "a", "l">>, size |-> 12]
    /\ heading_fonts' = <<>>
    /\ pc' = "font_done"
    /\ UNCHANGED <<text_blocks, font_size_counter, layoutVars, tableVars, semVars,
                 extractVars, fixVars, styleVars, buildVars, webVars>>

\* Steps 1 and 2: count the combinations and take the most common.
FontBody ==
    /\ pc = "font_start"
    /\ text_blocks # <<>>
    /\ font_size_counter' = CountFonts(text_blocks)
    /\ body_font' = LET mc == MostCommon(font_size_counter')
                    IN  [name |-> mc.key.font, size |-> mc.key.size]
    /\ pc' = "font_body"
    /\ UNCHANGED <<text_blocks, heading_fonts, layoutVars, tableVars, semVars,
                 extractVars, fixVars, styleVars, buildVars, webVars>>

\* Step 3: the heading fonts.
FontHeadings ==
    /\ pc = "font_body"
    /\ heading_fonts' = DetectHeadingFonts(text_blocks, font_size_counter, body_font.size)
    /\ pc' = "font_done"
    /\ UNCHANGED <<text_blocks, font_size_counter, body_font, layoutVars, tableVars, semVars,
                 extractVars, fixVars, styleVars, buildVars, webVars>>

NextFont == FontEmpty \/ FontBody \/ FontHeadings

SpecFont == InitFont /\ [][NextFont]_vars

(***************************************************************************)
(* Claims about FontAnalyzer (checked under SpecFont)                      *)
(***************************************************************************)
FontAnalysed == pc \in {"font_body", "font_done"} /\ text_blocks # <<>>

\* The length-weighted occurrence count of a combination, from the input.
RECURSIVE WeightUpTo(_, _, _)
WeightUpTo(blocks, key, n) ==
    IF n = 0 THEN 0
    ELSE LET w == IF Len(blocks[n].text) = 0 THEN 1 ELSE Len(blocks[n].text)
         IN  WeightUpTo(blocks, key, n - 1)
             + (IF FontKey(blocks[n]) = key THEN w ELSE 0)

TotalWeight(blocks, key) == WeightUpTo(blocks, key, Len(blocks))

FirstIndex(blocks, key) ==
    CHOOSE i \in 1..Len(blocks) :
        /\ FontKey(blocks[i]) = key
        /\ \A j \in 1..(i - 1) : FontKey(blocks[j]) # key

BodyKey == [font |-> body_font.name, size |-> body_font.size]

\* C8: the body font is a combination of the input with the highest total
\* weight, each span weighing max(len(text), 1); among several combinations
\* of that weight it is always the one whose first span comes first in the
\* input, so the result is a function of the input alone.
C8_BodyFontHighestWeight ==
    FontAnalysed =>
        LET best == TotalWeight(text_blocks, BodyKey)
        IN  /\ \E i \in 1..Len(text_blocks) : FontKey(text_blocks[i]) = BodyKey
            /\ \A j \in 1..Len(text_blocks) :
                  LET other == FontKey(text_blocks[j])
                      weight == TotalWeight(text_blocks, other)
                  IN  /\ weight <= best
                      /\ (other # BodyKey /\ weight = best)
                            => FirstIndex(text_blocks, BodyKey)
                                  < FirstIndex(text_blocks, other)

\* Two combinations tie for the highest weight and one of them was chosen.
C8_Witness ==
    /\ pc = "font_done"
    /\ text_blocks # <<>>
    /\ \E j \in 1..Len(text_blocks) :
          /\ FontKey(text_blocks[j]) # BodyKey
          /\ TotalWeight(text_blocks, FontKey(text_blocks[j]))
                = TotalWeight(text_blocks, BodyKey)
    /\ \E j \in 1..Len(text_blocks) : Len(text_blocks[j].text) > 1

HeadingsDone == pc = "font_done" /\ text_blocks # <<>>

\* C9 as stated: the level number does not increase as the ratio decreases
\* (a larger ratio never has the smaller level number).
C9_LevelNonIncreasingAsStated ==
    HeadingsDone =>
        \A i, j \in 1..Len(heading_fonts) :
            LET a == heading_fonts[i]
                b == heading_fonts[j]
            IN  a.size * body_font.size > b.size * body_font.size
                    => b.level <= a.level

\* C9 amended: a heading of the larger size / body size ratio has a level
\* number that is at most that of a heading of the smaller ratio (level 1
\* is the largest heading).
C9_LevelOrderedBySize ==
    HeadingsDone =>
        \A i, j \in 1..Len(heading_fonts) :
            LET a == heading_fonts[i]
                b == heading_fonts[j]
            IN  a.size * body_font.size > b.size * body_font.size
                    => a.level <= b.level

\* Two headings of different ratios and different levels.
C9_Witness ==
    /\ HeadingsDone
    /\ \E i, j \in 1..Len(heading_fonts) :
          /\ heading_fonts[i].size > heading_fonts[j].size
          /\ heading_fonts[i].level < heading_fonts[j].level

\* The level the ratio table gives a combination, 0 for none.
RatioLevel(key) ==
    LET s == key.size
        b == body_font.size
        bold == \E i \in 1..Len(text_blocks) :
                    FontKey(text_blocks[i]) = key /\ text_blocks[i].bold
    IN  IF s > b /\ 100 * s >= 140 * b THEN 1
        ELSE IF s > b /\ 100 * s >= 120 * b /\ 100 * s < 140 * b THEN 2
        ELSE IF s > b /\ 100 * s >= 105 * b /\ 100 * s < 120 * b /\ bold THEN 3
        ELSE 0

\* C10: a combination of the input is in heading_fonts exactly when it is
\* larger than the body size and its ratio gives it level 1, 2 or (being
\* bold) 3, it is listed once with that level, and nothing of
\* size <= body size is a heading.
C10_HeadingIffRatio ==
    HeadingsDone =>
        /\ \A i \in 1..Len(text_blocks) :
              LET key == FontKey(text_blocks[i])
                  hits == {h \in 1..Len(heading_fonts) :
                              /\ heading_fonts[h].name = key.font
                              /\ heading_fonts[h].size = key.size}
              IN  /\ (hits # {}) <=> (RatioLevel(key) # 0)
                  /\ Cardinality(hits) <= 1
                  /\ \A h \in hits : heading_fonts[h].level = RatioLevel(key)
        /\ \A h \in 1..Len(heading_fonts) :
              /\ heading_fonts[h].size > body_font.size
              /\ \E i \in 1..Len(text_blocks) :
                    FontKey(text_blocks[i]) =
                        [font |-> heading_fonts[h].name, size |-> heading_fonts[h].size]

\* A bold level-3 heading next to a larger combination that is no heading
\* because it is not bold.
C10_Witness ==
    /\ HeadingsDone
    /\ \E h \in 1..Len(heading_fonts) : heading_fonts[h].level = 3
    /\ \E i \in 1..Len(text_blocks) :
          /\ text_blocks[i].size > body_font.size
          /\ RatioLevel(FontKey(text_blocks[i])) = 0

(***************************************************************************)
(* LayoutAnalyzer                                                          *)
(***************************************************************************)
\* Gap thresholds as fractions of the page width / height, in hundredths.
COLUMN_GAP_THRESHOLD == 20
VERTICAL_GAP_THRESHOLD == 30
\* max_columns of the call in LayoutAnalyzer.analyze.
MAX_COLUMNS == 3

SetMin(S) == CHOOSE x \in S : \A y \in S : x <= y
SetMax(S) == CHOOSE x \in S : \A y \in S : y <= x
SeqRange(q) == {q[i] : i \in 1..Len(q)}

\* sorted(set): the elements in ascending order.
RECURSIVE SortedSet(_)
SortedSet(S) ==
    IF S = {} THEN <<>>
    ELSE LET lo == SetMin(S) IN <<lo>> \o SortedSet(S \ {lo})

\* sorted(blocks, key = (y0, x0)): a stable insertion sort.
BlockBefore(a, b) == a.y0 < b.y0 \/ (a.y0 = b.y0 /\ a.x0 < b.x0)

RECURSIVE SortBlocks(_)
SortBlocks(blocks) ==
    IF Len(blocks) <= 1 THEN blocks
    ELSE LET n == Len(blocks)
             init == SortBlocks(SubSeq(blocks, 1, n - 1))
             x == blocks[n]
             k == Cardinality({i \in 1..Len(init) : ~BlockBefore(x, init[i])})
         IN  SubSeq(init, 1, k) \o <<x>> \o SubSeq(init, k + 1, Len(init))

\* _single_column_result
SingleColumnResult(blocks) ==
    [num_columns |-> 1,
     columns |-> <<<<0, 0>>>>,
     text_blocks_by_column |-> [c \in {0} |-> blocks],
     section_breaks |-> <<>>]

\* Step 2: greedy clustering of the sorted x0 values; a gap of more than
\* COLUMN_GAP_THRESHOLD * page_width starts a new cluster.
RECURSIVE ClusterX0(_, _)
ClusterX0(x0_values, width) ==
    IF Len(x0_values) = 1 THEN <<<<x0_values[1]>>>>
    ELSE LET n == Len(x0_values)
             cs == ClusterX0(SubSeq(x0_values, 1, n - 1), width)
             last == cs[Len(cs)]
             x0 == x0_values[n]
         IN  IF 100 * (x0 - last[Len(last)]) > COLUMN_GAP_THRESHOLD * width
             THEN Append(cs, <<x0>>)
             ELSE [cs EXCEPT ![Len(cs)] = Append(last, x0)]

\* The variant of the loop condition that stops one cluster too early.
TooManyClustersOffByOne(cs, max_columns) == Len(cs) > max_columns + 1

\* while len(clusters) > max_columns
TooManyClusters(cs, max_columns) == Len(cs) > max_columns

\* One pass of _merge_clusters_to_max: merge the first pair of adjacent
\* clusters with the smallest gap.
MergeClosest(cs) ==
    LET Gap(i) == cs[i + 1][1] - cs[i][Len(cs[i])]
        merge_idx == CHOOSE i \in 1..(Len(cs) - 1) :
                        /\ \A j \in 1..(Len(cs) - 1) : Gap(i) <= Gap(j)
                        /\ \A j \in 1..(i - 1) : Gap(j) > Gap(i)
    IN  [i \in 1..(Len(cs) - 1) |->
            IF i < merge_idx THEN cs[i]
            ELSE IF i = merge_idx THEN cs[i] \o cs[i + 1]
            ELSE cs[i + 1]]

\* _compute_column_boundaries
ComputeColumnBoundaries(cs, blocks, width) ==
    [c \in 1..Len(cs) |->
        LET x_start == SetMin(SeqRange(cs[c]))
            x_end_candidates ==
                {blocks[i].x1 : i \in {j \in 1..Len(blocks) :
                    /\ blocks[j].x0 >= x_start
                    /\ blocks[j].x0 <= SetMax(SeqRange(cs[c]))}}
            x_end == IF x_end_candidates # {} THEN SetMax(x_end_candidates)
                     ELSE Min(width, x_start + 100)
        IN  <<x_start, x_end>>]

\* _assign_column: the first column that contains x0, else the first column
\* of the smallest boundary distance.  Column indices count from 0.
AssignColumn(block, columns) ==
    LET x0 == block.x0
        Inside(c) == columns[c][1] <= x0 /\ x0 <= columns[c][2]
        Dist(c) == Min(Abs(x0 - columns[c][1]), Abs(x0 - columns[c][2]))
        cols == 1..Len(columns)
    IN  IF \E c \in cols : Inside(c)
        THEN SetMin({c \in cols : Inside(c)}) - 1
        ELSE SetMin({c \in cols : \A d \in cols : Dist(c) <= Dist(d)}) - 1

\* Step 4: the blocks of every column, in input order.
BlocksByColumn(blocks, columns) ==
    [c \in 0..(Len(columns) - 1) |->
        LET InColumn(b) == AssignColumn(b, columns) = c
        IN  SelectSeq(blocks, InColumn)]

\* _detect_section_breaks
DetectSectionBreaks(blocks, height) ==
    IF Len(blocks) < 2 THEN <<>>
    ELSE LET sorted_blocks == SortBlocks(blocks)
             Gap(i) == sorted_blocks[i + 1].y0 - sorted_blocks[i].y1
             IsBreak(i) == 100 * Gap(i) > VERTICAL_GAP_THRESHOLD * height
         IN  [k \in 1..Cardinality({i \in 1..(Len(blocks) - 1) : IsBreak(i)}) |->
                LET i == CHOOSE i \in 1..(Len(blocks) - 1) :
                            /\ IsBreak(i)
                            /\ Cardinality({j \in 1..i : IsBreak(j)}) = k
                IN  [y_start |-> sorted_blocks[i].y1,
                     y_end |-> sorted_blocks[i + 1].y0,
                     gap_size |-> Gap(i)]]

\* Steps 3 to 5 and the returned dict.
LayoutResult(cs, blocks, width, height) ==
    LET columns == ComputeColumnBoundaries(cs, blocks, width)
    IN  [num_columns |-> Len(cs),
         columns |-> columns,
         text_blocks_by_column |-> BlocksByColumn(blocks, columns),
         section_breaks |-> DetectSectionBreaks(blocks, height)]

(***************************************************************************)
(* The layout specification: LayoutAnalyzer.analyze on one page            *)
(***************************************************************************)
MaxLayoutSlots == 6

\* Left edges a page can have spans at.  With a page width of 10 a gap of
\* more than 2 separates clusters: 0 and 2 cluster, the others stand alone.
X0Grid == <<0, 2, 5, 8, 12, 16, 20, 24>>
LayoutSlots == 1..Min(MaxLayoutSlots, Len(X0Grid))

\* Per left edge: no span, a narrow span, or a span wide enough to reach
\* over the next left edges.
SlotChoices == {"none", "narrow", "wide"}

RECURSIVE SlotBlocks(_, _)
SlotBlocks(choice, n) ==
    IF n = 0 THEN <<>>
    ELSE LET init == SlotBlocks(choice, n - 1)
             x0 == X0Grid[n]
         IN  IF choice[n] = "none" THEN init
             ELSE Append(init,
                    Span(<<"a">>, <<"T">>, 10, FALSE, FALSE, x0, 10 * n,
                         x0 + (IF choice[n] = "wide" THEN 7 ELSE 1),
                         10 * n + 10, 0))

LayoutPageWidths == {0 - 10, 0, 10}
LayoutPageHeights == {0, 40}

InitLayout ==
    /\ pc = "layout_start"
    /\ \E choice \in [LayoutSlots -> SlotChoices] :
          text_blocks = SlotBlocks(choice, Cardinality(LayoutSlots))
    /\ page_width \in LayoutPageWidths
    /\ page_height \in LayoutPageHeights
    /\ clusters = Idle
    /\ layout = Idle
    /\ FontIdle
    /\ TableIdle
    /\ ExtractIdle
    /\ FixIdle
    /\ StyleIdle
    /\ BuildIdle
    /\ WebIdle
    /\ SemIdle

\* if not text_blocks or page_width <= 0 or page_height <= 0
LayoutDegenerate ==
    /\ pc = "layout_start"
    /\ text_blocks = <<>> \/ page_width <= 0 \/ page_height <= 0
    /\ layout' = SingleColumnResult(text_blocks)
    /\ pc' = "layout_done"
    /\ UNCHANGED <<text_blocks, page_width, page_height, clusters, fontVars, tableVars, semVars,
                 extractVars, fixVars, styleVars, buildVars, webVars>>

\* Steps 1 and 2: the sorted unique x0 values, clustered.
LayoutCluster ==
    /\ pc = "layout_start"
    /\ ~(text_blocks = <<>> \/ page_width <= 0 \/ page_height <= 0)
    /\ clusters' = ClusterX0(
            SortedSet({text_blocks[i].x0 : i \in 1..Len(text_blocks)}), page_width)
    /\ pc' = "layout_clustered"
    /\ UNCHANGED <<text_blocks, page_width, page_height, layout, fontVars, tableVars, semVars,
                 extractVars, fixVars, styleVars, buildVars, webVars>>

\* One iteration of the loop of _merge_clusters_to_max.
LayoutMerge ==
    /\ pc = "layout_clustered"
    /\ TooManyClusters(clusters, MAX_COLUMNS)
    /\ clusters' = MergeClosest(clusters)
    /\ UNCHANGED <<pc, text_blocks, page_width, page_height, layout, fontVars, tableVars, semVars,
                 extractVars, fixVars, styleVars, buildVars, webVars>>

\* Steps 3 to 5, once at most MAX_COLUMNS clusters are left.
LayoutFinish ==
    /\ pc = "layout_clustered"
    /\ ~TooManyClusters(clusters, MAX_COLUMNS)
    /\ layout' = LayoutResult(clusters, text_blocks, page_width, page_height)
    /\ pc' = "layout_done"
    /\ UNCHANGED <<text_blocks, page_width, page_height, clusters, fontVars, tableVars, semVars,
                 extractVars, fixVars, styleVars, buildVars, webVars>>

NextLayout == LayoutDegenerate \/ LayoutCluster \/ LayoutMerge \/ LayoutFinish

SpecLayout == InitLayout /\ [][NextLayout]_vars

(***************************************************************************)
(* Claims about LayoutAnalyzer (checked under SpecLayout)                  *)
(***************************************************************************)
\* C3: whatever the spans and the page dimensions (empty span list and
\* non-positive dimensions included), the returned num_columns is in 1..3.
C3_ColumnBound ==
    pc = "layout_done" => layout.num_columns >= 1 /\ layout.num_columns <= 3

\* A page whose left edges form more than three clusters was analysed and
\* came out with three columns.
C3_Witness ==
    /\ pc = "layout_done"
    /\ page_width > 0 /\ page_height > 0 /\ text_blocks # <<>>
    /\ Len(ClusterX0(SortedSet({text_blocks[i].x0 : i \in 1..Len(text_blocks)}),
                     page_width)) > 4
    /\ layout.num_columns = 3

\* The guard of analyze's first return.
DegenerateInput ==
    text_blocks = <<>> \/ page_width <= 0 \/ page_height <= 0

\* C17, as stated: for degenerate input (empty span list, or page_width <= 0,
\* or page_height <= 0) analyze returns exactly one column that is full-width
\* (for a positive page width its boundaries are 0 and page_width) and to
\* which all input spans are assigned.  _single_column_result writes the
\* boundaries (0.0, 0.0) whatever the page width is.
C17_DegenerateFullWidthAsStated ==
    pc = "layout_done" /\ DegenerateInput =>
        /\ layout.num_columns = 1
        /\ Len(layout.columns) = 1
        /\ DOMAIN layout.text_blocks_by_column = {0}
        /\ layout.text_blocks_by_column[0] = text_blocks
        /\ page_width > 0 => layout.columns[1] = <<0, page_width>>

\* What the degenerate return does: one column holding every input span,
\* with the boundaries (0, 0) and no section break.
DegenerateSingleColumn ==
    pc = "layout_done" /\ DegenerateInput =>
        /\ layout.num_columns = 1
        /\ layout.columns = <<<<0, 0>>>>
        /\ DOMAIN layout.text_blocks_by_column = {0}
        /\ layout.text_blocks_by_column[0] = text_blocks
        /\ layout.section_breaks = <<>>

\* A page of positive width and no height, with spans, went through the
\* degenerate return.
DegenerateWithSpans ==
    /\ pc = "layout_done"
    /\ page_width > 0 /\ page_height <= 0
    /\ text_blocks # <<>>
    /\ layout.text_blocks_by_column[0] = text_blocks

\* The index, counted from 0, of the cluster that holds x0.  Step 1 makes the
\* x0 values unique, so exactly one cluster holds it.
ClusterOf(x0, cs) ==
    (CHOOSE c \in 1..Len(cs) : x0 \in SeqRange(cs[c])) - 1

\* C30, as stated: analyze assigns every span to the column formed from the
\* x0 cluster that contains the span's left edge, i.e. every span listed under
\* column c of text_blocks_by_column has its x0 in cluster c.
\* _compute_column_boundaries stretches a column to the largest x1 of its
\* spans and _assign_column returns the first column whose range contains x0,
\* so a wide span of an earlier column takes the spans of later clusters.
C30_ColumnIsClusterOfLeftEdgeAsStated ==
    pc = "layout_done" /\ ~DegenerateInput =>
        \A c \in DOMAIN layout.text_blocks_by_column :
            \A k \in 1..Len(layout.text_blocks_by_column[c]) :
                ClusterOf(layout.text_blocks_by_column[c][k].x0, clusters) = c

\* What analyze does: a span goes to the first column whose range
\* [x_start, x_end] contains its x0.  The column of its own cluster is one of
\* them, so the index is never larger than the cluster's, and it is the
\* cluster's exactly when no earlier column reaches the span's left edge.
ColumnIsFirstRangeHoldingLeftEdge ==
    pc = "layout_done" /\ ~DegenerateInput =>
        \A c \in DOMAIN layout.text_blocks_by_column :
            \A k \in 1..Len(layout.text_blocks_by_column[c]) :
                LET x0 == layout.text_blocks_by_column[c][k].x0
                    Holds(d) == /\ layout.columns[d + 1][1] <= x0
                                /\ x0 <= layout.columns[d + 1][2]
                    own == ClusterOf(x0, clusters)
                IN  /\ Holds(c)
                    /\ Holds(own)
                    /\ \A d \in 0..(c - 1) : ~Holds(d)
                    /\ c <= own
                    /\ c = own <=> \A d \in 0..(own - 1) : ~Holds(d)

\* A page of three clusters with a wide span in the first: a span whose left
\* edge is in the second cluster was listed under column 0.
SpanTakenByEarlierColumn ==
    /\ pc = "layout_done" /\ ~DegenerateInput
    /\ Len(clusters) = 3
    /\ \E k \in 1..Len(layout.text_blocks_by_column[0]) :
          ClusterOf(layout.text_blocks_by_column[0][k].x0, clusters) = 1

\* A page of three clusters of narrow spans: every span was listed under the
\* column of its own cluster.
NarrowSpansKeepTheirCluster ==
    /\ pc = "layout_done" /\ ~DegenerateInput
    /\ Len(clusters) = 3
    /\ \A c \in DOMAIN layout.text_blocks_by_column :
          /\ layout.text_blocks_by_column[c] # <<>>
          /\ \A k \in 1..Len(layout.text_blocks_by_column[c]) :
                ClusterOf(layout.text_blocks_by_column[c][k].x0, clusters) = c

(***************************************************************************)
(* TableExtractor._collapse_empty_columns                                  *)
(***************************************************************************)
\* row[i] if i < len(row) else ""  (columns count from 1 here)
Cell(row, i) == IF i <= Len(row) THEN row[i] ELSE <<>>

\* num_cols = max(len(r) for r in rows)
NumCols(grid) == SetMax({Len(grid[r]) : r \in 1..Len(grid)})

\* Step 1: keep[col_idx], some row has content in the column.
Keep(grid, col_idx) ==
    \E r \in 1..Len(grid) :
        col_idx <= Len(grid[r]) /\ Strip(grid[r][col_idx]) # <<>>

\* kept_indices, ascending
KeptIndices(grid) ==
    [k \in 1..Cardinality({c \in 1..NumCols(grid) : Keep(grid, c)}) |->
        CHOOSE c \in 1..NumCols(grid) :
            /\ Keep(grid, c)
            /\ Cardinality({d \in 1..(c - 1) : Keep(grid, d)}) = k - 1]

\* Step 2: the rows with only the kept columns.
FilterRows(grid) ==
    LET kept == KeptIndices(grid)
    IN  [r \in 1..Len(grid) |-> [k \in 1..Len(kept) |-> Cell(grid[r], kept[k])]]

\* The variant that finds an overlap in every pair, so that nothing merges.
OverlapAlways(grid, ci) == TRUE

\* The variant that takes a cell of either column for an overlap.
OverlapEither(grid, ci) ==
    \E r \in 1..Len(grid) :
        Strip(Cell(grid[r], ci)) # <<>> \/ Strip(Cell(grid[r], ci + 1)) # <<>>

\* overlap: some row has text in column ci and in column ci + 1.
Overlap(grid, ci) ==
    \E r \in 1..Len(grid) :
        Strip(Cell(grid[r], ci)) # <<>> /\ Strip(Cell(grid[r], ci + 1)) # <<>>

\* The variant that removes column ci + 2 as well.
MergeColumnsDropTwo(grid, ci) ==
    [r \in 1..Len(grid) |->
        LET row == grid[r]
            a == Strip(Cell(row, ci))
            b == Strip(Cell(row, ci + 1))
        IN  [k \in 1..Max(Len(row) - 2, 1) |->
                IF k < ci THEN row[k]
                ELSE IF k = ci THEN Strip(a \o <<" ">> \o b)
                ELSE Cell(row, k + 2)]]

\* Merge column ci + 1 into column ci and remove column ci + 1.
MergeColumns(grid, ci) ==
    [r \in 1..Len(grid) |->
        LET row == grid[r]
            a == Strip(Cell(row, ci))
            b == Strip(Cell(row, ci + 1))
        IN  [k \in 1..(Len(row) - 1) |->
                IF k < ci THEN row[k]
                ELSE IF k = ci THEN Strip(a \o <<" ">> \o b)
                ELSE row[k + 1]]]

(***************************************************************************)
(* The table specification: _collapse_empty_columns on one raw grid        *)
(***************************************************************************)
MaxTableCols == 4

TableRows == {1, 2}
ColumnLetters == <<"a", "b", "c", "d", "e", "f">>
TableCols == 1..Min(MaxTableCols, Len(ColumnLetters))

\* A cell is empty, blank, or holds the letter of its column after a space.
CellTexts(c) == {<<>>, <<" ">>, <<" ", ColumnLetters[c]>>}

InitTable ==
    /\ pc = "table_start"
    /\ \E n \in TableCols :
          rows \in [TableRows -> {row \in [1..n -> UNION {CellTexts(c) : c \in 1..n}] :
                                    \A c \in 1..n : row[c] \in CellTexts(c)}]
    /\ filtered_rows = Idle
    /\ table_result = Idle
    /\ text_blocks = Idle
    /\ FontIdle
    /\ LayoutIdle
    /\ SemIdle
    /\ ExtractIdle
    /\ FixIdle
    /\ StyleIdle
    /\ BuildIdle
    /\ WebIdle

\* if num_cols <= 1: return rows
TableNarrow ==
    /\ pc = "table_start"
    /\ NumCols(rows) <= 1
    /\ table_result' = rows
    /\ pc' = "table_done"
    /\ UNCHANGED <<rows, filtered_rows, text_blocks, fontVars, layoutVars, semVars,
                 extractVars, fixVars, styleVars, buildVars, webVars>>

\* Steps 1 and 2 with no column kept: return rows as they are.
TableAllEmpty ==
    /\ pc = "table_start"
    /\ NumCols(rows) > 1
    /\ KeptIndices(rows) = <<>>
    /\ table_result' = rows
    /\ pc' = "table_done"
    /\ UNCHANGED <<rows, filtered_rows, text_blocks, fontVars, layoutVars, semVars,
                 extractVars, fixVars, styleVars, buildVars, webVars>>

\* Steps 1 and 2: drop the columns without content.
TableFilter ==
    /\ pc = "table_start"
    /\ NumCols(rows) > 1
    /\ KeptIndices(rows) # <<>>
    /\ filtered_rows' = FilterRows(rows)
    /\ pc' = "table_merge"
    /\ UNCHANGED <<rows, table_result, text_blocks, fontVars, layoutVars, semVars,
                 extractVars, fixVars, styleVars, buildVars, webVars>>

\* A pass of the while loop that finds a complementary pair: merge the
\* first one and scan again.
TableMergePass ==
    /\ pc = "table_merge"
    /\ Len(filtered_rows[1]) > 1
    /\ \E ci \in 1..(Len(filtered_rows[1]) - 1) :
          /\ ~Overlap(filtered_rows, ci)
          /\ \A cj \in 1..(ci - 1) : Overlap(filtered_rows, cj)
          /\ filtered_rows' = MergeColumns(filtered_rows, ci)
    /\ UNCHANGED <<pc, rows, table_result, text_blocks, fontVars, layoutVars, semVars,
                 extractVars, fixVars, styleVars, buildVars, webVars>>

\* The pass that ends the loop: one column left, or no complementary pair.
TableReturn ==
    /\ pc = "table_merge"
    /\ \/ Len(filtered_rows[1]) <= 1
       \/ \A ci \in 1..(Len(filtered_rows[1]) - 1) : Overlap(filtered_rows, ci)
    /\ table_result' = filtered_rows
    /\ pc' = "table_done"
    /\ UNCHANGED <<rows, filtered_rows, text_blocks, fontVars, layoutVars, semVars,
                 extractVars, fixVars, styleVars, buildVars, webVars>>

NextTable ==
    TableNarrow \/ TableAllEmpty \/ TableFilter \/ TableMergePass \/ TableReturn

SpecTable == InitTable /\ [][NextTable]_vars

(***************************************************************************)
(* The merge specification: _collapse_empty_columns on grids of two rows   *)
(* whose columns are blank or hold text in one row or in both; the         *)
(* function runs to its return, each step being taken once it is enabled.  *)
(***************************************************************************)
MaxMergeCols == 4

ColumnKinds == {"blank", "first", "second", "both"}

\* The grid of two rows whose column c is of kind kinds[c].
KindGrid(kinds) ==
    [r \in 1..2 |->
        [c \in 1..Len(kinds) |->
            IF kinds[c] = "both" \/ (kinds[c] = "first" /\ r = 1)
                                \/ (kinds[c] = "second" /\ r = 2)
            THEN <<ColumnLetters[c]>>
            ELSE IF kinds[c] = "blank" /\ r = 2 THEN <<" ">> ELSE <<>>]]

InitMerge ==
    /\ pc = "table_call"
    /\ rows = Idle
    /\ filtered_rows = Idle
    /\ table_result = Idle
    /\ text_blocks = Idle
    /\ FontIdle
    /\ LayoutIdle
    /\ SemIdle
    /\ ExtractIdle
    /\ FixIdle
    /\ StyleIdle
    /\ BuildIdle
    /\ WebIdle

\* rows = self._collapse_empty_columns(rows): the call, with its argument.
MergeCall ==
    /\ pc = "table_call"
    /\ \E n \in 1..Min(MaxMergeCols, Len(ColumnLetters)) :
       \E kinds \in [1..n -> ColumnKinds] : rows' = KindGrid(kinds)
    /\ pc' = "table_start"
    /\ UNCHANGED <<filtered_rows, table_result, text_blocks, fontVars,
                   layoutVars, semVars, extractVars, fixVars, styleVars, buildVars, webVars>>

NextMerge == MergeCall \/ NextTable

SpecMerge == InitMerge /\ [][NextMerge]_vars /\ WF_vars(NextMerge)

(***************************************************************************)
(* Claims about _collapse_empty_columns (checked under SpecTable)          *)
(***************************************************************************)
Blank(cell) == \A i \in 1..Len(cell) : cell[i] \in Whitespace

\* The cell text without its whitespace.
Trimmed(cell) ==
    SelectSeq(cell, LAMBDA ch : ch \notin Whitespace)

\* A raw 2 x 4 grid whose columns 2 and 4 are entirely blank.
Grid2x4 ==
    /\ Len(rows) = 2
    /\ \A r \in 1..2 : Len(rows[r]) = 4 /\ Blank(rows[r][2]) /\ Blank(rows[r][4])

\* table_result is a 2 x 1 table whose cell in each row is, up to
\* surrounding whitespace, the merged text of columns 1 and 3 of the row.
Merged2x1 ==
    /\ Len(table_result) = 2
    /\ \A r \in 1..2 :
          /\ Len(table_result[r]) = 1
          /\ Trimmed(table_result[r][1])
                = Trimmed(rows[r][1]) \o Trimmed(rows[r][3])

\* C6 as stated: columns 1 and 3 never both blank in a row give a 2 x 1
\* table of their merged text.
C6_NeverBothEmptyAsStated ==
    (/\ pc = "table_done"
     /\ Grid2x4
     /\ \A r \in 1..2 : ~(Blank(rows[r][1]) /\ Blank(rows[r][3])))
        => Merged2x1

\* C6 amended: columns 2 and 4 entirely blank and columns 1 and 3 never
\* both blank and never both with text in the same row (every row has text
\* in exactly one of them) give a 2 x 1 table of their merged text.
C6_ComplementaryMerged ==
    (/\ pc = "table_done"
     /\ Grid2x4
     /\ \A r \in 1..2 : ~(Blank(rows[r][1]) /\ Blank(rows[r][3]))
     /\ \A r \in 1..2 : Blank(rows[r][1]) \/ Blank(rows[r][3]))
        => Merged2x1

\* Such a grid was collapsed: column 1 has text in one row and column 3 in
\* the other.
C6_Witness ==
    /\ pc = "table_done"
    /\ Grid2x4
    /\ ~Blank(rows[1][1]) /\ Blank(rows[1][3])
    /\ Blank(rows[2][1]) /\ ~Blank(rows[2][3])
    /\ rows[1][2] = <<" ">>
    /\ Len(table_result[1]) = 1

\* Some cell of column c of the grid is not blank.
ColumnHasText(grid, c) ==
    \E r \in 1..Len(grid) : ~Blank(Cell(grid[r], c))

\* Some row of the grid has text in column c and in column c + 1.
BothNonEmptyInSomeRow(grid, c) ==
    \E r \in 1..Len(grid) :
        ~Blank(Cell(grid[r], c)) /\ ~Blank(Cell(grid[r], c + 1))

\* C21: the result of _collapse_empty_columns on a grid with at least 2
\* columns and at least one non-blank cell is a fixpoint of the collapsing
\* rules: it has no column whose cells are all blank, and every pair of
\* adjacent columns has a row in which both cells are non-empty.
C21_ResultIsFixpoint ==
    (/\ pc = "table_done"
     /\ NumCols(rows) >= 2
     /\ \E c \in 1..NumCols(rows) : ColumnHasText(rows, c))
        => /\ \A r \in 1..Len(table_result) :
                 Len(table_result[r]) = NumCols(table_result)
           /\ \A c \in 1..NumCols(table_result) : ColumnHasText(table_result, c)
           /\ \A c \in 1..(NumCols(table_result) - 1) :
                 BothNonEmptyInSomeRow(table_result, c)

\* A grid of four columns with a blank column and a complementary pair was
\* collapsed to two columns that overlap in a row.
C21_Witness ==
    /\ pc = "table_done"
    /\ NumCols(rows) = 4
    /\ \E c \in 1..4 : ~ColumnHasText(rows, c)
    /\ \E c \in 1..3 : ColumnHasText(rows, c) /\ ColumnHasText(rows, c + 1)
                            /\ ~BothNonEmptyInSomeRow(rows, c)
    /\ NumCols(table_result) = 2
    /\ BothNonEmptyInSomeRow(table_result, 1)

\* The number of columns of the working grid.
WorkingCols == Len(filtered_rows[1])

\* C22: the complementary-column merge loop terminates: each pass that
\* merges reduces the column count by exactly one, the count never falls
\* below one, so a grid with c non-empty columns undergoes at most c - 1
\* merges, and the function returns.
C22_MergeLoopTerminates ==
    /\ [][TableMergePass => Len(filtered_rows'[1]) = WorkingCols - 1]_vars
    /\ [](pc = "table_merge" =>
             WorkingCols >= 1 /\ WorkingCols <= Len(KeptIndices(rows)))
    /\ [](pc = "table_done" /\ filtered_rows # Idle =>
             Len(KeptIndices(rows)) - NumCols(table_result)
                 <= Len(KeptIndices(rows)) - 1)
    /\ <>(pc = "table_done")

\* Four non-empty columns went through two merges and came out as two
\* columns.
C22_Witness ==
    /\ pc = "table_done"
    /\ Len(KeptIndices(rows)) = 4
    /\ filtered_rows # Idle
    /\ NumCols(filtered_rows) = 2
    /\ table_result = filtered_rows

(***************************************************************************)
(* SemanticAnalyzer._detect_headers_footers                                *)
(***************************************************************************)
\* threshold = 0.08, in hundredths of the page height.
ZONE_THRESHOLD == 8

\* min_page_count = 3
MIN_PAGE_COUNT == 3

\* The height _page_height falls back to (US Letter).
FALLBACK_PAGE_HEIGHT == 792

\* _page_height(page_num); pages_meta[0] of the source is meta[1] here.
PageHeight(meta, page_num) ==
    IF Len(meta) > 0 /\ 0 <= page_num /\ page_num < Len(meta)
    THEN meta[page_num + 1].height
    ELSE FALLBACK_PAGE_HEIGHT

\* y1 <= ph * threshold
InTopZone(block, meta) ==
    100 * block.y1 <= ZONE_THRESHOLD * PageHeight(meta, block.page_num)

\* y0 >= ph * (1 - threshold)
InBottomZone(block, meta) ==
    100 * block.y0 >= (100 - ZONE_THRESHOLD) * PageHeight(meta, block.page_num)

\* norm_text = block.get("text", "").strip(), for every block.
NormTexts(blocks) == <<>> \o [i \in 1..Len(blocks) |-> Strip(blocks[i].text)]

\* The stripped texts that get an entry in zone_counts: "if not norm_text:
\* continue", and the defaultdict makes an entry only for a block in a zone.
ZoneTexts(blocks, norm, meta) ==
    {norm[i] : i \in
        {j \in 1..Len(blocks) :
            /\ norm[j] # <<>>
            /\ InTopZone(blocks[j], meta) \/ InBottomZone(blocks[j], meta)}}

\* zone_counts[text]["top_pages"] after the classification loop.
TopPages(blocks, norm, meta, text) ==
    {blocks[i].page_num : i \in
        {j \in 1..Len(blocks) : norm[j] = text /\ InTopZone(blocks[j], meta)}}

\* zone_counts[text]["bottom_pages"] after the classification loop; the
\* bottom test is the elif of the top test.
BottomPages(blocks, norm, meta, text) ==
    {blocks[i].page_num : i \in
        {j \in 1..Len(blocks) :
            /\ norm[j] = text
            /\ ~InTopZone(blocks[j], meta)
            /\ InBottomZone(blocks[j], meta)}}

\* The variant that asks for more than half of the pages.
MeetsThresholdStrict(count, n) == 2 * count > Max(n, 2 * MIN_PAGE_COUNT)

\* count >= max(page_count * min_page_ratio, min_page_count), doubled.
MeetsThreshold(count, n) == 2 * count >= Max(n, 2 * MIN_PAGE_COUNT)

HeaderSet(blocks, norm, meta, n) ==
    {text \in ZoneTexts(blocks, norm, meta) :
        MeetsThreshold(Cardinality(TopPages(blocks, norm, meta, text)), n)}

FooterSet(blocks, norm, meta, n) ==
    {text \in ZoneTexts(blocks, norm, meta) :
        MeetsThreshold(Cardinality(BottomPages(blocks, norm, meta, text)), n)}

\* The positions of seq whose element is in S and occurs there first.
FirstOccurrences(seq, S) ==
    {i \in 1..Len(seq) : seq[i] \in S /\ \A j \in 1..(i - 1) : seq[j] # seq[i]}

\* The filter loop: a header text is recorded in seen_headers at its first
\* block, a footer text that is not a header in seen_footers, and every
\* other block is kept.
FilterBlocks(blocks, norm, headers, footers) ==
    LET hs == SortedSet(FirstOccurrences(norm, headers))
        fs == SortedSet(FirstOccurrences(norm, footers \ headers))
        keep == SortedSet({i \in 1..Len(blocks) :
                              norm[i] \notin headers \cup footers})
    IN  [seen_headers |-> [k \in 1..Len(hs) |-> norm[hs[k]]],
         seen_footers |-> [k \in 1..Len(fs) |-> norm[fs[k]]],
         filtered |-> [k \in 1..Len(keep) |-> blocks[keep[k]]]]

(***************************************************************************)
(* The header/footer specification: _detect_headers_footers on a document  *)
(***************************************************************************)
MaxPages == 10

RunningText == <<"H">>

\* How the running text sits in the top zone of the first page: once, twice,
\* reaching one point below the zone, or padded with whitespace.
TopVariants == {"plain", "twice", "straddle", "padded"}

\* A block with the keys _detect_headers_footers reads.
HFSpan(text, y0, y1, page_num) ==
    [text |-> text, y0 |-> y0, y1 |-> y1, page_num |-> page_num]

TopBlocks(variant, page_num) ==
    CASE variant = "plain" -> <<HFSpan(RunningText, 0, 8, page_num)>>
      [] variant = "twice" -> <<HFSpan(RunningText, 0, 8, page_num),
                                HFSpan(RunningText, 2, 6, page_num)>>
      [] variant = "straddle" -> <<HFSpan(RunningText, 1, 9, page_num)>>
      [] variant = "padded" ->
            <<HFSpan(<<" ">> \o RunningText \o <<"\n">>, 0, 8, page_num)>>

\* The blocks of one page of height 100: the running text in the top zone
\* (y1 <= 8) if the page is
\* one of top_pages, and in the bottom zone if it is one of the first
\* bottom_count pages.
PageBlocks(top_pages, variant, bottom_count, page_num) ==
    (IF page_num \in top_pages
     THEN TopBlocks(IF page_num = 0 THEN variant ELSE "plain", page_num)
     ELSE <<>>)
    \o (IF page_num < bottom_count
        THEN <<HFSpan(RunningText, 92, 100, page_num)>>
        ELSE <<>>)

\* The blocks of pages 0 .. n-1, page by page.
RECURSIVE DocumentBlocks(_, _, _, _)
DocumentBlocks(top_pages, variant, bottom_count, n) ==
    IF n = 0 THEN <<>>
    ELSE DocumentBlocks(top_pages, variant, bottom_count, n - 1)
         \o PageBlocks(top_pages, variant, bottom_count, n - 1)

InitHF ==
    /\ pc = "hf_start"
    /\ page_count \in 1..MaxPages
    /\ pages_meta = [p \in 1..page_count |-> [height |-> 100]]
    /\ \E top_pages \in SUBSET (0..(page_count - 1)) :
       \E variant \in IF 0 \in top_pages THEN TopVariants ELSE {"plain"} :
       \E bottom_count \in 0..page_count :
          text_blocks = DocumentBlocks(top_pages, variant, bottom_count,
                                       page_count)
    /\ header_set = {}
    /\ footer_set = {}
    /\ header_texts = Idle
    /\ footer_texts = Idle
    /\ filtered_blocks = Idle
    /\ FontIdle
    /\ LayoutIdle
    /\ TableIdle
    /\ ExtractIdle
    /\ FixIdle
    /\ StyleIdle
    /\ BuildIdle
    /\ WebIdle
    /\ GroupIdle
    /\ links = Idle
    /\ num_columns = 0
    /\ DocIdle

\* if page_count < 3 or not text_blocks: return [], [], text_blocks
HFTooFew ==
    /\ pc = "hf_start"
    /\ page_count < 3 \/ text_blocks = <<>>
    /\ header_texts' = <<>>
    /\ footer_texts' = <<>>
    /\ filtered_blocks' = text_blocks
    /\ pc' = "hf_done"
    /\ UNCHANGED <<text_blocks, page_count, pages_meta, header_set, footer_set,
                   fontVars, layoutVars, tableVars,
                   groupVars, links, num_columns, docVars,
                 extractVars, fixVars, styleVars, buildVars, webVars>>

\* The classification loop and the threshold tests, then either
\* "if not header_set and not footer_set: return [], [], text_blocks"
\* or the filter loop.
HFDetect ==
    /\ pc = "hf_start"
    /\ ~(page_count < 3 \/ text_blocks = <<>>)
    /\ LET norm == NormTexts(text_blocks)
           headers == HeaderSet(text_blocks, norm, pages_meta, page_count)
           footers == FooterSet(text_blocks, norm, pages_meta, page_count)
           out == FilterBlocks(text_blocks, norm, headers, footers)
       IN  /\ header_set' = headers
           /\ footer_set' = footers
           /\ IF headers = {} /\ footers = {}
              THEN /\ header_texts' = <<>>
                   /\ footer_texts' = <<>>
                   /\ filtered_blocks' = text_blocks
              ELSE /\ header_texts' = out.seen_headers
                   /\ footer_texts' = out.seen_footers
                   /\ filtered_blocks' = out.filtered
    /\ pc' = "hf_done"
    /\ UNCHANGED <<text_blocks, page_count, pages_meta,
                   fontVars, layoutVars, tableVars,
                   groupVars, links, num_columns, docVars,
                 extractVars, fixVars, styleVars, buildVars, webVars>>

NextHF == HFTooFew \/ HFDetect

SpecHF == InitHF /\ [][NextHF]_vars

(***************************************************************************)
(* Claims about _detect_headers_footers (checked under SpecHF)             *)
(***************************************************************************)
HFDone == pc = "hf_done"

\* The stripped texts of the document.
DocumentTexts == {Strip(text_blocks[i].text) : i \in 1..Len(text_blocks)} \ {<<>>}

\* The pages on which a span with the text lies entirely in the top 8 %.
TopPagesOf(text) ==
    {text_blocks[i].page_num : i \in
        {j \in 1..Len(text_blocks) :
            /\ Strip(text_blocks[j].text) = text
            /\ 100 * text_blocks[j].y1
                 <= 8 * PageHeight(pages_meta, text_blocks[j].page_num)}}

\* The pages on which a span with the text lies entirely in the bottom 8 %.
BottomPagesOf(text) ==
    {text_blocks[i].page_num : i \in
        {j \in 1..Len(text_blocks) :
            /\ Strip(text_blocks[j].text) = text
            /\ 100 * text_blocks[j].y0
                 >= 92 * PageHeight(pages_meta, text_blocks[j].page_num)}}

Enough(pages) ==
    /\ page_count >= 3
    /\ 2 * Cardinality(pages) >= page_count
    /\ Cardinality(pages) >= 3

C2_WitnessFour ==
    /\ HFDone
    /\ page_count = 10
    /\ Cardinality(TopPagesOf(RunningText)) = 4
    /\ RunningText \notin header_set

(***************************************************************************)
(* _detect_headers_footers on pages that repeat a text in their body       *)
(***************************************************************************)
MaxBodyPages == 4

\* Where the running text sits in the margin of a page, and what the body
\* of the page holds: nothing, a line with the running text, another line.
MarginVariants == {"none", "top", "bottom"}
BodyVariants == {"none", "same", "other"}

\* The blocks of one page of height 100, sorted by y.
BodyPageBlocks(margin, body, page_num) ==
    (IF margin = "top"
     THEN <<HFSpan(RunningText, 0, 8, page_num)>> ELSE <<>>)
    \o (CASE body = "same" -> <<HFSpan(RunningText, 40, 48, page_num)>>
          [] body = "other" -> <<HFSpan(<<"a">>, 40, 48, page_num)>>
          [] OTHER -> <<>>)
    \o (IF margin = "bottom"
        THEN <<HFSpan(RunningText, 92, 100, page_num)>> ELSE <<>>)

RECURSIVE BodyDocumentBlocks(_, _, _)
BodyDocumentBlocks(margins, bodies, n) ==
    IF n = 0 THEN <<>>
    ELSE BodyDocumentBlocks(margins, bodies, n - 1)
         \o BodyPageBlocks(margins[n], bodies[n], n - 1)

InitHFBody ==
    /\ pc = "hf_start"
    /\ page_count \in 1..MaxBodyPages
    /\ pages_meta = [p \in 1..page_count |-> [height |-> 100]]
    /\ \E margins \in [1..page_count -> MarginVariants] :
       \E bodies \in [1..page_count -> BodyVariants] :
          text_blocks = BodyDocumentBlocks(margins, bodies, page_count)
    /\ header_set = {}
    /\ footer_set = {}
    /\ header_texts = Idle
    /\ footer_texts = Idle
    /\ filtered_blocks = Idle
    /\ FontIdle
    /\ LayoutIdle
    /\ TableIdle
    /\ ExtractIdle
    /\ FixIdle
    /\ StyleIdle
    /\ BuildIdle
    /\ WebIdle
    /\ GroupIdle
    /\ links = Idle
    /\ num_columns = 0
    /\ DocIdle

SpecHFBody == InitHFBody /\ [][NextHF]_vars

\* The span of the input is in filtered_blocks.
Retained(i) ==
    \E k \in 1..Len(filtered_blocks) : filtered_blocks[k] = text_blocks[i]

\* The span lies entirely within the top 8 % or the bottom 8 % of its page.
InMarginZone(i) ==
    \/ 100 * text_blocks[i].y1
         <= 8 * PageHeight(pages_meta, text_blocks[i].page_num)
    \/ 100 * text_blocks[i].y0
         >= 92 * PageHeight(pages_meta, text_blocks[i].page_num)

\* C27: the header/footer filter removes only spans that lie entirely in
\* the top 8 % or the bottom 8 % of their page; a span in the body zone is
\* retained even when its text is a detected header or footer.
C27_BodySpansRetainedAsStated ==
    HFDone => \A i \in 1..Len(text_blocks) : ~InMarginZone(i) => Retained(i)

\* What the code guarantees: the filter loop goes by the stripped text
\* alone, so a span is retained exactly when its text is no detected header
\* or footer, wherever it lies.
RetainedIffTextNotDetected ==
    HFDone =>
        \A i \in 1..Len(text_blocks) :
            Retained(i) <=>
                Strip(text_blocks[i].text) \notin header_set \cup footer_set

\* Three pages with the running text in the top margin, the second page
\* with the same text as a line of its body: the body line is removed.
BodyLineRemoved ==
    /\ HFDone
    /\ page_count = 3
    /\ text_blocks = <<HFSpan(RunningText, 0, 8, 0),
                       HFSpan(RunningText, 0, 8, 1),
                       HFSpan(RunningText, 40, 48, 1),
                       HFSpan(RunningText, 0, 8, 2)>>
    /\ header_set = {RunningText}
    /\ filtered_blocks = <<>>

(***************************************************************************)
(* SemanticAnalyzer: paragraph grouping                                    *)
(*                                                                         *)
(* A character outside ASCII is written by its code point ("U+2022").      *)
(* The formatting dict of an element (fonts, alignment, spacing, indents)  *)
(* is not part of the model.                                               *)
(***************************************************************************)
\* _BULLET_CHARS = set("•●○■□-*▪")
BULLET_CHARS ==
    {"U+2022", "U+25CF", "U+25CB", "U+25A0", "U+25A1", "-", "*", "U+25AA"}

\* \d
Digits == {"0", "1", "2", "3", "4", "5", "6", "7", "8", "9"}

\* [a-zA-Z]
Letters ==
    {"a", "b", "c", "d", "e", "f", "g", "h", "i", "j", "k", "l", "m",
     "n", "o", "p", "q", "r", "s", "t", "u", "v", "w", "x", "y", "z",
     "A", "B", "C", "D", "E", "F", "G", "H", "I", "J", "K", "L", "M",
     "N", "O", "P", "Q", "R", "S", "T", "U", "V", "W", "X", "Y", "Z"}

\* [ivxlcdmIVXLCDM]
RomanChars ==
    {"i", "v", "x", "l", "c", "d", "m", "I", "V", "X", "L", "C", "D", "M"}

\* _ORDERED_LIST_RE.match(stripped): m.end() of the match, 0 for no match.
\* The prefix is \d+, one letter or a run of roman numerals, and has to be
\* followed by "." or ")" and one whitespace character.
OrderedListEnd(stripped) ==
    LET n == Len(stripped)
        run(S) == Cardinality({k \in 1..n : \A j \in 1..k : stripped[j] \in S})
        ok(k) == /\ k >= 1
                 /\ k + 2 <= n
                 /\ stripped[k + 1] \in {".", ")"}
                 /\ stripped[k + 2] \in Whitespace
        d == run(Digits)
        l == IF n >= 1 /\ stripped[1] \in Letters THEN 1 ELSE 0
        r == run(RomanChars)
    IN  IF ok(d) THEN d + 2
        ELSE IF ok(l) THEN l + 2
        ELSE IF ok(r) THEN r + 2
        ELSE 0

\* _is_list_start(text)
IsListStart(text) ==
    LET stripped == LStrip(text)
    IN  /\ stripped # <<>>
        /\ stripped[1] \in BULLET_CHARS \/ OrderedListEnd(stripped) > 0

\* The variant that measures the gap against the body size.
SizeOrBody(size, body_size) == body_size

\* float(curr.get("size", body_size) or body_size)
SizeOr(size, body_size) == IF size = 0 THEN body_size ELSE size

\* The variant of _should_merge without the list-item test.
ShouldMergeListBlind(prev, curr, body_size, width) ==
    LET size == SizeOr(curr.size, body_size)
        y_gap == curr.y0 - prev.y1
        line_width == prev.x1 - prev.x0
        content_width10 == Max(10 * (width - 144), 6 * width)
    IN  /\ prev.font = curr.font
        /\ prev.size = curr.size
        /\ prev.bold = curr.bold
        /\ prev.italic = curr.italic
        /\ ~(2 * y_gap >= 3 * size)
        /\ ~(content_width10 > 0 /\ 100 * line_width < 6 * content_width10)

\* _should_merge(prev, curr, body_size, page_width).  content_width is kept
\* in tenths: content_width = max(page_width - 144, page_width * 0.6).
ShouldMerge(prev, curr, body_size, width) ==
    LET size == SizeOr(curr.size, body_size)
        y_gap == curr.y0 - prev.y1
        line_width == prev.x1 - prev.x0
        content_width10 == Max(10 * (width - 144), 6 * width)
    IN  /\ ~IsListStart(curr.text)
        /\ prev.font = curr.font
        /\ prev.size = curr.size
        /\ prev.bold = curr.bold
        /\ prev.italic = curr.italic
        /\ ~(2 * y_gap >= 3 * size)
        /\ ~(content_width10 > 0 /\ 100 * line_width < 6 * content_width10)

\* The variant of the loop that also visits sorted_blocks[0].
LoopBlocksFromFirst(sorted_blocks) == sorted_blocks

\* for block in sorted_blocks[1:]
LoopBlocks(sorted_blocks) == Tail(sorted_blocks)

\* The loop of _process_text_blocks after k blocks: the groups already
\* finalized and the group being built.
RECURSIVE GroupLoop(_, _, _, _)
GroupLoop(sorted_blocks, k, body_size, width) ==
    IF k = 0
    THEN [finalized |-> <<>>, group |-> <<sorted_blocks[1]>>]
    ELSE LET before == GroupLoop(sorted_blocks, k - 1, body_size, width)
             block == LoopBlocks(sorted_blocks)[k]
             last == before.group[Len(before.group)]
         IN  IF ShouldMerge(last, block, body_size, width)
             THEN [before EXCEPT !.group = Append(@, block)]
             ELSE [finalized |-> Append(before.finalized, before.group),
                   group |-> <<block>>]

\* The groups of spans _process_text_blocks finalizes, in order.
GroupBlocks(blocks, body_size, width) ==
    IF blocks = <<>> THEN <<>>
    ELSE LET sorted_blocks == SortBlocks(blocks)
             end == GroupLoop(sorted_blocks, Len(LoopBlocks(sorted_blocks)),
                              body_size, width)
         IN  Append(end.finalized, end.group)

\* heading_lookup.get((clean_font, size)): the level, 0 for None.  The dict
\* comprehension keeps the last entry of heading_fonts with a given key.
HeadingLookup(headings, name, size) ==
    LET hits == {i \in 1..Len(headings) :
                    headings[i].name = name /\ headings[i].size = size}
    IN  IF hits = {} THEN 0 ELSE headings[SetMax(hits)].level

\* y_gap = blk.y0 - group[i - 1].y1, for the i-th span (i > 1) of a group.
GroupGap(group, i) == group[i].y0 - group[i - 1].y1

\* "".join(texts) of _finalize_group, for the first k spans.
RECURSIVE JoinTexts(_, _, _)
JoinTexts(group, k, size) ==
    IF k = 0 THEN <<>>
    ELSE JoinTexts(group, k - 1, size)
         \o (IF k = 1 THEN <<>>
             ELSE IF GroupGap(group, k) > size THEN <<"\n">> ELSE <<" ">>)
         \o group[k].text

\* One entry of runs; the colour and decoration keys are not modelled.
Run(txt, blk) ==
    [text |-> txt, size |-> blk.size, bold |-> blk.bold, italic |-> blk.italic,
     x0 |-> blk.x0, y0 |-> blk.y0, x1 |-> blk.x1, y1 |-> blk.y1]

\* runs of _finalize_group, for the first k spans: a span after a wide gap
\* is preceded by a {"text": "\n"} run, any other later span gets a leading
\* space.
RECURSIVE GroupRuns(_, _, _)
GroupRuns(group, k, size) ==
    IF k = 0 THEN <<>>
    ELSE LET blk == group[k]
             before == GroupRuns(group, k - 1, size)
         IN  IF k = 1 THEN before \o <<Run(blk.text, blk)>>
             ELSE IF GroupGap(group, k) > size
             THEN before \o <<[text |-> <<"\n">>], Run(blk.text, blk)>>
             ELSE before \o <<Run(<<" ">> \o blk.text, blk)>>

\* _detect_list(text, x0, body_x0); found is FALSE for None.
DetectList(text, x0, x0_body) ==
    LET stripped == LStrip(text)
        level == Max(Max(x0 - x0_body, 0) \div 20, 0)
        end == OrderedListEnd(stripped)
    IN  IF stripped = <<>> THEN [found |-> FALSE]
        ELSE IF stripped[1] \in BULLET_CHARS
        THEN [found |-> TRUE, text |-> LStrip(Tail(stripped)),
              level |-> level, bullet_type |-> "bullet"]
        ELSE IF end > 0
        THEN [found |-> TRUE,
              text |-> LStrip(SubSeq(stripped, end + 1, Len(stripped))),
              level |-> level, bullet_type |-> "number"]
        ELSE [found |-> FALSE]

\* The variant that tests for a list item before it tests for a heading.
FinalizeGroupListFirst(group, page, body_size, x0_body, headings) ==
    LET rep == group[1]
        clean_font == StripSubsetPrefix(rep.font)
        size == rep.size
        merged_text == Strip(JoinTexts(group, Len(group), size))
        heading_level == HeadingLookup(headings, clean_font, size)
        list_info == DetectList(merged_text, rep.x0, x0_body)
    IN  IF list_info.found
        THEN [type |-> "list_item", text |-> list_info.text, page_num |-> page,
              level |-> list_info.level, bullet_type |-> list_info.bullet_type,
              _y0 |-> rep.y0, _x0 |-> rep.x0]
        ELSE IF heading_level # 0
        THEN [type |-> "heading", level |-> heading_level, text |-> merged_text,
              page_num |-> page, _y0 |-> rep.y0, _x0 |-> rep.x0]
        ELSE [type |-> "paragraph", text |-> merged_text,
              runs |-> GroupRuns(group, Len(group), size), page_num |-> page,
              _y0 |-> rep.y0, _x0 |-> rep.x0]

\* _finalize_group: a heading if the first span's (font, size) is a heading
\* combination, else a list item if the merged text is one, else a
\* paragraph; only a paragraph carries runs.
FinalizeGroup(group, page, body_size, x0_body, headings) ==
    LET rep == group[1]
        clean_font == StripSubsetPrefix(rep.font)
        size == rep.size
        merged_text == Strip(JoinTexts(group, Len(group), size))
        heading_level == HeadingLookup(headings, clean_font, size)
        list_info == DetectList(merged_text, rep.x0, x0_body)
    IN  IF heading_level # 0
        THEN [type |-> "heading", level |-> heading_level, text |-> merged_text,
              page_num |-> page, _y0 |-> rep.y0, _x0 |-> rep.x0]
        ELSE IF list_info.found
        THEN [type |-> "list_item", text |-> list_info.text, page_num |-> page,
              level |-> list_info.level, bullet_type |-> list_info.bullet_type,
              _y0 |-> rep.y0, _x0 |-> rep.x0]
        ELSE [type |-> "paragraph", text |-> merged_text,
              runs |-> GroupRuns(group, Len(group), size), page_num |-> page,
              _y0 |-> rep.y0, _x0 |-> rep.x0]

\* _process_text_blocks: one element per group.
ProcessTextBlocks(blocks, page, body_size, x0_body, headings, width) ==
    LET gs == GroupBlocks(blocks, body_size, width)
    IN  [k \in 1..Len(gs) |->
            FinalizeGroup(gs[k], page, body_size, x0_body, headings)]

(***************************************************************************)
(* The grouping specification: _process_text_blocks on the spans of one    *)
(* page, and again on the spans of each group it made                      *)
(***************************************************************************)
MaxGroupLines == 4

\* The top of text line i: lines 12 points apart, a wider gap before the
\* fourth.
LineY0(i) == 100 + 12 * i + (IF i >= 4 THEN 14 ELSE 0)

\* What a line carries.
LineKinds == {"none", "wide", "short", "bullet", "padded_bullet", "ordered",
              "bold", "title", "halves"}

GroupSpan(text, size, bold, x0, x1, i) ==
    Span(text, <<"T">>, size, bold, FALSE, x0, LineY0(i), x1, LineY0(i) + size, 0)

LineBlocks(kind, i) ==
    CASE kind = "none" -> <<>>
      [] kind = "wide" -> <<GroupSpan(<<"a", "b">>, 10, FALSE, 72, 480, i)>>
      [] kind = "short" -> <<GroupSpan(<<"a", "b">>, 10, FALSE, 72, 200, i)>>
      [] kind = "bullet" ->
            <<GroupSpan(<<"-", " ", "a">>, 10, FALSE, 72, 480, i)>>
      [] kind = "padded_bullet" ->
            <<GroupSpan(<<" ", "U+2022", "a">>, 10, FALSE, 72, 480, i)>>
      [] kind = "ordered" ->
            <<GroupSpan(<<"1", "0", ".", " ", "a">>, 10, FALSE, 72, 480, i)>>
      [] kind = "bold" -> <<GroupSpan(<<"a", "b">>, 10, TRUE, 72, 480, i)>>
      [] kind = "title" -> <<GroupSpan(<<"a", "b">>, 14, FALSE, 72, 480, i)>>
      [] kind = "halves" ->
            <<GroupSpan(<<"b">>, 10, FALSE, 340, 480, i),
              GroupSpan(<<"a">>, 10, FALSE, 72, 330, i)>>

RECURSIVE LinesBlocks(_, _)
LinesBlocks(kinds, n) ==
    IF n = 0 THEN <<>>
    ELSE LinesBlocks(kinds, n - 1) \o LineBlocks(kinds[n], n)

GroupPageWidths == {612, 500}

InitGroup ==
    /\ pc = "group_start"
    /\ \E kinds \in [1..MaxGroupLines -> LineKinds] :
          text_blocks = LinesBlocks(kinds, MaxGroupLines)
    /\ page_width \in GroupPageWidths
    /\ page_height = 792
    /\ clusters = Idle
    /\ layout = Idle
    /\ font_size_counter = Idle
    /\ body_font = [name |-> <<"T">>, size |-> 10]
    /\ heading_fonts = <<[name |-> <<"T">>, size |-> 14, level |-> 1]>>
    /\ body_x0 = 72
    /\ groups = Idle
    /\ elements = Idle
    /\ regrouped = Idle
    /\ links = Idle
    /\ num_columns = 0
    /\ DocIdle
    /\ TableIdle
    /\ ExtractIdle
    /\ FixIdle
    /\ StyleIdle
    /\ BuildIdle
    /\ WebIdle
    /\ HFIdle

\* if not blocks: return []
GroupEmpty ==
    /\ pc = "group_start"
    /\ text_blocks = <<>>
    /\ groups' = <<>>
    /\ elements' = <<>>
    /\ pc' = "group_done"
    /\ UNCHANGED <<text_blocks, body_x0, regrouped, fontVars, layoutVars,
                   tableVars, hfVars, links, num_columns, docVars,
                 extractVars, fixVars, styleVars, buildVars, webVars>>

\* _process_text_blocks(blocks, 0, body_size, body_x0, heading_lookup, ...)
GroupProcess ==
    /\ pc = "group_start"
    /\ text_blocks # <<>>
    /\ groups' = GroupBlocks(text_blocks, body_font.size, page_width)
    /\ elements' = ProcessTextBlocks(text_blocks, 0, body_font.size, body_x0,
                                     heading_fonts, page_width)
    /\ pc' = "group_done"
    /\ UNCHANGED <<text_blocks, body_x0, regrouped, fontVars, layoutVars,
                   tableVars, hfVars, links, num_columns, docVars,
                 extractVars, fixVars, styleVars, buildVars, webVars>>

\* The grouping run again on exactly the spans of each group.
GroupAgain ==
    /\ pc = "group_done"
    /\ regrouped' = [k \in 1..Len(groups) |->
                        GroupBlocks(groups[k], body_font.size, page_width)]
    /\ pc' = "group_again"
    /\ UNCHANGED <<text_blocks, body_x0, groups, elements, fontVars,
                   layoutVars, tableVars, hfVars, links, num_columns, docVars,
                 extractVars, fixVars, styleVars, buildVars, webVars>>

NextGroup == GroupEmpty \/ GroupProcess \/ GroupAgain

SpecGroup == InitGroup /\ [][NextGroup]_vars

(***************************************************************************)
(* Claims about paragraph grouping (checked under SpecGroup)               *)
(***************************************************************************)
Grouped == pc \in {"group_done", "group_again"}

StartsWithBullet(text) == text # <<>> /\ text[1] \in BULLET_CHARS

RECURSIVE Flatten(_)
Flatten(seqs) ==
    IF seqs = <<>> THEN <<>> ELSE seqs[1] \o Flatten(Tail(seqs))

\* C4: after _process_text_blocks every span of the page is in exactly the
\* group the loop put it in, and a span whose text starts with a bullet
\* character is the first span of its group: it was never appended to the
\* group of the span before it.
C4_BulletStartsGroup ==
    Grouped =>
        /\ Flatten(groups) = SortBlocks(text_blocks)
        /\ \A k \in 1..Len(groups) : \A i \in 1..Len(groups[k]) :
              StartsWithBullet(groups[k][i].text) => i = 1

\* A bullet span right after a span that agrees with it in font, size, bold
\* and italic, is close above it and is wide enough: it starts a new group.
C4_Witness ==
    /\ Grouped
    /\ \E k \in 2..Len(groups) :
          /\ StartsWithBullet(groups[k][1].text)
          /\ ShouldMergeListBlind(groups[k - 1][Len(groups[k - 1])],
                                  groups[k][1], body_font.size, page_width)

\* C5: grouping again exactly the spans of a group G that
\* _process_text_blocks made (same body size and page width) gives one
\* group, with the spans of G in the same order.
C5_GroupingIdempotent ==
    pc = "group_again" =>
        \A k \in 1..Len(groups) : regrouped[k] = <<groups[k]>>

\* Two groups or more were made, one of them of three spans, and each was
\* grouped again.
C5_Witness ==
    /\ pc = "group_again"
    /\ Len(groups) >= 2
    /\ \E k \in 1..Len(groups) : Len(groups[k]) >= 3 /\ regrouped[k] = <<groups[k]>>

(***************************************************************************)
(* The join specification: _process_text_blocks on a run of body lines     *)
(* followed by two spans whose fields vary one at a time                   *)
(***************************************************************************)
MaxJoinSpans == 3

\* What distinguishes a span from the body line: its font, size or style,
\* a text that starts a list item ("1.a" does not), or its right edge (the
\* widths 280 and 281 lie on either side of 60% of the content width of a
\* page 612 wide, 107 and 108 of a page 300 wide).
JoinKinds ==
    {"base", "font", "size", "bold", "italic", "dash", "padded_bullet",
     "ordered", "not_list", "w280", "w281", "w107", "w108"}

\* The gap above the last span: 15 is 1.5 x 10 and 18 is 1.5 x 12.
JoinGaps == {14, 15, 18}

JoinPageWidths == {612, 300}

JoinSpan(kind, y0) ==
    LET size == IF kind = "size" THEN 12 ELSE 10
    IN  Span(CASE kind = "dash" -> <<"-", " ", "a">>
               [] kind = "padded_bullet" -> <<" ", "U+2022", "a">>
               [] kind = "ordered" -> <<"1", ".", " ", "a">>
               [] kind = "not_list" -> <<"1", ".", "a">>
               [] OTHER -> <<"a", "b">>,
             IF kind = "font" THEN <<"U">> ELSE <<"T">>,
             size, kind = "bold", kind = "italic",
             72, y0,
             CASE kind = "w280" -> 352
               [] kind = "w281" -> 353
               [] kind = "w107" -> 179
               [] kind = "w108" -> 180
               [] OTHER -> 480,
             y0 + size, 0)

\* n - 2 body lines 12 points apart, then a span of kind prev_kind, then a
\* span of kind curr_kind whose top is gap below the bottom of the former.
JoinBlocks(n, prev_kind, curr_kind, gap) ==
    LET prev == JoinSpan(prev_kind, 100 + 12 * (n - 2))
    IN  [i \in 1..(n - 2) |-> JoinSpan("base", 100 + 12 * (i - 1))]
            \o <<prev, JoinSpan(curr_kind, prev.y1 + gap)>>

InitJoin ==
    /\ pc = "group_start"
    /\ \E n \in 2..MaxJoinSpans : \E prev_kind, curr_kind \in JoinKinds :
       \E gap \in JoinGaps :
          text_blocks = JoinBlocks(n, prev_kind, curr_kind, gap)
    /\ page_width \in JoinPageWidths
    /\ page_height = 792
    /\ clusters = Idle
    /\ layout = Idle
    /\ font_size_counter = Idle
    /\ body_font = [name |-> <<"T">>, size |-> 10]
    /\ heading_fonts = <<[name |-> <<"T">>, size |-> 14, level |-> 1]>>
    /\ body_x0 = 72
    /\ groups = Idle
    /\ elements = Idle
    /\ regrouped = Idle
    /\ links = Idle
    /\ num_columns = 0
    /\ DocIdle
    /\ TableIdle
    /\ ExtractIdle
    /\ FixIdle
    /\ StyleIdle
    /\ BuildIdle
    /\ WebIdle
    /\ HFIdle

NextJoin == GroupProcess

SpecJoin == InitJoin /\ [][NextJoin]_vars

(***************************************************************************)
(* Claims about _should_merge (checked under SpecJoin)                     *)
(***************************************************************************)
\* Ten times the estimated content width, max(page_width - 144,
\* page_width * 0.6).
ContentWidth10(width) == Max(10 * (width - 144), 6 * width)

\* The four conditions of the claim for a span and the last span of the
\* current group.
JoinConditions(last, span, width) ==
    /\ ~IsListStart(span.text)
    /\ span.font = last.font /\ span.size = last.size
    /\ span.bold = last.bold /\ span.italic = last.italic
    /\ 2 * (span.y0 - last.y1) < 3 * span.size
    /\ 100 * (last.x1 - last.x0) >= 6 * ContentWidth10(width)

\* The span at position n + 1 of the page was appended to the group of the
\* span at position n.
JoinedToPrevious(n) ==
    \E g \in 1..Len(groups) : \E i \in 1..(Len(groups[g]) - 1) :
        groups[g][i] = text_blocks[n] /\ groups[g][i + 1] = text_blocks[n + 1]

\* The span at position n + 1 is the first span of a group.
StartsGroup(n) ==
    \E g \in 1..Len(groups) : groups[g][1] = text_blocks[n + 1]

\* C20: in paragraph grouping a span joins the current group if and only if
\* it is not a list-item start, its font, size, bold and italic equal those
\* of the group's last span, the vertical gap between the last span's
\* bottom and its top is < 1.5 x size, and the last span's width is >= 60%
\* of the estimated content width; in every other case the span starts a
\* new group.
C20_JoinIffAllConditions ==
    pc = "group_done" =>
        /\ Flatten(groups) = text_blocks
        /\ \A n \in 1..(Len(text_blocks) - 1) :
              /\ JoinedToPrevious(n) <=>
                    JoinConditions(text_blocks[n], text_blocks[n + 1], page_width)
              /\ StartsGroup(n) <=> ~JoinedToPrevious(n)

\* Two spans of size 12 whose gap of 15 points is 1.5 x the body size but
\* less than 1.5 x their size were joined, after a body line of another
\* size that was not.
C20_Witness ==
    /\ pc = "group_done"
    /\ Len(text_blocks) = 3
    /\ text_blocks[2].size = 12 /\ text_blocks[3].size = 12
    /\ text_blocks[3].y0 - text_blocks[2].y1 = 15
    /\ groups = <<<<text_blocks[1]>>, <<text_blocks[2], text_blocks[3]>>>>

\* A span started a new group only because the last span of the group is
\* 280 points wide on a page 612 wide (60% of the content width is 280.8).
C20_WitnessShortLine ==
    /\ pc = "group_done"
    /\ page_width = 612
    /\ Len(text_blocks) = 3
    /\ text_blocks[2].x1 - text_blocks[2].x0 = 280
    /\ text_blocks[3].x1 - text_blocks[3].x0 = 408
    /\ text_blocks[3].y0 - text_blocks[2].y1 = 14
    /\ text_blocks[3].text = <<"a", "b">>
    /\ text_blocks[3].font = text_blocks[2].font
    /\ ~text_blocks[3].bold /\ ~text_blocks[3].italic
    /\ groups = <<<<text_blocks[1], text_blocks[2]>>, <<text_blocks[3]>>>>

(***************************************************************************)
(* SemanticAnalyzer._attach_links                                          *)
(***************************************************************************)
\* The elements of seq at the positions in idx, in order.
SelectAt(seq, idx) ==
    LET order == SortedSet(idx) IN [k \in 1..Len(order) |-> seq[order[k]]]

\* dict.get(key, default)
Get(dict, key, default) == IF key \in DOMAIN dict THEN dict[key] ELSE default

\* sep.join(parts)
RECURSIVE Join(_, _)
Join(parts, sep) ==
    IF parts = <<>> THEN <<>>
    ELSE IF Len(parts) = 1 THEN parts[1]
    ELSE parts[1] \o sep \o Join(Tail(parts), sep)

\* sub occurs in text at the 0-based position i.
OccursAt(text, sub, i) ==
    /\ i >= 0
    /\ i + Len(sub) <= Len(text)
    /\ \A j \in 1..Len(sub) : text[i + j] = sub[j]

\* The variant that finds the last occurrence (str.rfind).
FindLast(text, sub) ==
    LET hits == {i \in 0..Len(text) : OccursAt(text, sub, i)}
    IN  IF hits = {} THEN 0 - 1 ELSE SetMax(hits)

\* text.find(sub): the lowest position, -1 if there is none.
Find(text, sub) ==
    LET hits == {i \in 0..Len(text) : OccursAt(text, sub, i)}
    IN  IF hits = {} THEN 0 - 1 ELSE SetMin(hits)

\* rx1 > lx0 and rx0 < lx1 and ry1 > ly0 and ry0 < ly1; bbox is
\* (lx0, ly0, lx1, ly1) and a run without a box (the "\n" run) has zeros.
RunOverlapsLink(run, bbox) ==
    /\ Get(run, "x1", 0) > bbox[1]
    /\ Get(run, "x0", 0) < bbox[3]
    /\ Get(run, "y1", 0) > bbox[2]
    /\ Get(run, "y0", 0) < bbox[4]

\* link_text_parts of one link: the text of the overlapping runs.
LinkTextParts(runs, link) ==
    LET hit == SelectAt(runs, {r \in 1..Len(runs) :
                                  RunOverlapsLink(runs[r], link.bbox)})
    IN  [k \in 1..Len(hit) |-> hit[k].text]

\* " ".join(link_text_parts).strip()
LinkText(parts) == Strip(Join(parts, <<" ">>))

\* matched of one element: one range per link of the page that overlaps a
\* run and whose text is found in the element's text.
MatchedLinks(text, runs, page_links) ==
    LET found == {k \in 1..Len(page_links) :
                    /\ LinkTextParts(runs, page_links[k]) # <<>>
                    /\ Find(text, LinkText(LinkTextParts(runs, page_links[k]))) >= 0}
        ranges == [k \in 1..Len(page_links) |->
                     LET link_text == LinkText(LinkTextParts(runs, page_links[k]))
                         start == Find(text, link_text)
                     IN  [text |-> link_text, uri |-> page_links[k].uri,
                          start |-> start, end |-> start + Len(link_text)]]
    IN  SelectAt(ranges, found)

\* The body of the loop over elements.
AttachToElement(elem, lks) ==
    LET page_links == SelectAt(lks, {k \in 1..Len(lks) :
                                        lks[k].page_num = elem.page_num})
        text == Get(elem, "text", <<>>)
        runs == Get(elem, "runs", <<>>)
        matched == MatchedLinks(text, runs, page_links)
    IN  IF elem.type \notin {"paragraph", "heading"} THEN elem
        ELSE IF page_links = <<>> THEN elem
        ELSE IF text = <<>> \/ runs = <<>> THEN elem
        ELSE IF matched = <<>> THEN elem
        ELSE [key \in DOMAIN elem \cup {"links"} |->
                IF key = "links" THEN matched ELSE elem[key]]

\* _attach_links(elements, links)
AttachLinks(elems, lks) ==
    IF lks = <<>> THEN elems
    ELSE [e \in 1..Len(elems) |-> AttachToElement(elems[e], lks)]

(***************************************************************************)
(* The link specification: the spans of one page are grouped and the       *)
(* links of the document attached                                          *)
(***************************************************************************)
MaxLinkLines == 3

VisitOur == <<"V", "i", "s", "i", "t", " ", "o", "u", "r">>
Website == <<"w", "e", "b", "s", "i", "t", "e">>
Today == <<"t", "o", "d", "a", "y">>

\* What a line carries: nothing, one of three texts in the body font, or
\* a title in the heading font.
LinkLineKinds == {"none", "visit", "website", "today", "title"}

LinkLineBlocks(kind, i) ==
    CASE kind = "none" -> <<>>
      [] kind = "visit" -> <<GroupSpan(VisitOur, 10, FALSE, 72, 480, i)>>
      [] kind = "website" -> <<GroupSpan(Website, 10, FALSE, 72, 480, i)>>
      [] kind = "today" -> <<GroupSpan(Today, 10, FALSE, 72, 480, i)>>
      [] kind = "title" -> <<GroupSpan(Website, 14, FALSE, 72, 480, i)>>

RECURSIVE LinkLinesBlocks(_, _)
LinkLinesBlocks(kinds, n) ==
    IF n = 0 THEN <<>>
    ELSE LinkLinesBlocks(kinds, n - 1) \o LinkLineBlocks(kinds[n], n)

\* A link rectangle over lines i .. j of page 0, or a link of page 1.
LinkShapes ==
    {[bbox |-> <<60, LineY0(i) + 1, 500, LineY0(j) + 9>>, page_num |-> 0] :
        i \in 1..MaxLinkLines, j \in 1..MaxLinkLines}
    \cup {[bbox |-> <<60, LineY0(1) + 1, 500, LineY0(1) + 9>>, page_num |-> 1]}

\* links: up to two links, the k-th with uri k.
LinkLists ==
    {[k \in 1..Len(shapes) |->
        [bbox |-> shapes[k].bbox, page_num |-> shapes[k].page_num, uri |-> k]] :
     shapes \in SeqsUpTo({s \in LinkShapes : s.bbox[2] < s.bbox[4]}, 2)}

InitLinks ==
    /\ pc = "links_start"
    /\ \E kinds \in [1..MaxLinkLines -> LinkLineKinds] :
          text_blocks = LinkLinesBlocks(kinds, MaxLinkLines)
    /\ links \in LinkLists
    /\ page_width = 612
    /\ page_height = 792
    /\ clusters = Idle
    /\ layout = Idle
    /\ font_size_counter = Idle
    /\ body_font = [name |-> <<"T">>, size |-> 10]
    /\ heading_fonts = <<[name |-> <<"T">>, size |-> 14, level |-> 1]>>
    /\ body_x0 = 72
    /\ groups = Idle
    /\ elements = Idle
    /\ regrouped = Idle
    /\ num_columns = 0
    /\ DocIdle
    /\ TableIdle
    /\ ExtractIdle
    /\ FixIdle
    /\ StyleIdle
    /\ BuildIdle
    /\ WebIdle
    /\ HFIdle

\* The elements of the page, as analyze makes them before the links.
LinksProcess ==
    /\ pc = "links_start"
    /\ groups' = GroupBlocks(text_blocks, body_font.size, page_width)
    /\ elements' = ProcessTextBlocks(text_blocks, 0, body_font.size, body_x0,
                                     heading_fonts, page_width)
    /\ pc' = "links_grouped"
    /\ UNCHANGED <<text_blocks, links, body_x0, regrouped, fontVars,
                   layoutVars, tableVars, hfVars, num_columns, docVars,
                 extractVars, fixVars, styleVars, buildVars, webVars>>

\* self._attach_links(elements, links)
LinksAttach ==
    /\ pc = "links_grouped"
    /\ elements' = AttachLinks(elements, links)
    /\ pc' = "links_done"
    /\ UNCHANGED <<text_blocks, links, body_x0, groups, regrouped, fontVars,
                   layoutVars, tableVars, hfVars, num_columns, docVars,
                 extractVars, fixVars, styleVars, buildVars, webVars>>

NextLinks == LinksProcess \/ LinksAttach

SpecLinks == InitLinks /\ [][NextLinks]_vars

(***************************************************************************)
(* Claims about _attach_links (checked under SpecLinks)                    *)
(***************************************************************************)
VisitOurWebsiteToday == VisitOur \o <<" ">> \o Website \o <<" ">> \o Today

\* The link overlaps runs of elem, and each of them reads "website".
OverlapsOnlyWebsite(elem, link) ==
    /\ link.page_num = elem.page_num
    /\ \E r \in 1..Len(elem.runs) : RunOverlapsLink(elem.runs[r], link.bbox)
    /\ \A r \in 1..Len(elem.runs) :
          RunOverlapsLink(elem.runs[r], link.bbox)
              => Strip(elem.runs[r].text) = Website

\* C7: every range _attach_links records on an element starts at the first
\* occurrence of the range's text in the element's text and ends that
\* text's length later, so that text[start:end] is the range's text; and
\* the paragraph "Visit our website today" with a link of its page that
\* overlaps only the run "website" gets the range start = 10, end = 17.
C7_LinkRangeIsFirstOccurrence ==
    pc = "links_done" =>
        \A e \in 1..Len(elements) :
            /\ "links" \in DOMAIN elements[e] =>
                  \A r \in 1..Len(elements[e].links) :
                     LET range == elements[e].links[r]
                         text == elements[e].text
                     IN  /\ OccursAt(text, range.text, range.start)
                         /\ \A i \in 0..(range.start - 1) :
                               ~OccursAt(text, range.text, i)
                         /\ range.end = range.start + Len(range.text)
                         /\ SubSeq(text, range.start + 1, range.end) = range.text
            /\ elements[e].type = "paragraph"
               /\ elements[e].text = VisitOurWebsiteToday =>
                  \A k \in 1..Len(links) :
                     OverlapsOnlyWebsite(elements[e], links[k]) =>
                        /\ "links" \in DOMAIN elements[e]
                        /\ \E r \in 1..Len(elements[e].links) :
                              elements[e].links[r] =
                                 [text |-> Website, uri |-> links[k].uri,
                                  start |-> 10, end |-> 17]

\* The example: the paragraph "Visit our website today" carries exactly the
\* range 10 .. 17 of its one link.
C7_Witness ==
    /\ pc = "links_done"
    /\ Len(links) = 1
    /\ \E e \in 1..Len(elements) :
          /\ elements[e].type = "paragraph"
          /\ elements[e].text = VisitOurWebsiteToday
          /\ "links" \in DOMAIN elements[e]
          /\ elements[e].links =
                <<[text |-> Website, uri |-> 1, start |-> 10, end |-> 17]>>

\* C15, as stated: link attachment covers headings as well as paragraphs:
\* when a link of the same page has a rectangle that overlaps the box of a
\* span grouped into a heading element, the heading carries a link range
\* {text, uri, start, end} for that link.  _attach_links reads the spans
\* from the element's runs, and _finalize_group gives a heading no runs.
C15_HeadingLinksAsStated ==
    pc = "links_done" =>
        \A e \in 1..Len(elements) : \A k \in 1..Len(links) :
            /\ elements[e].type = "heading"
            /\ links[k].page_num = elements[e].page_num
            /\ \E b \in 1..Len(groups[e]) :
                  RunOverlapsLink(groups[e][b], links[k].bbox)
            => /\ "links" \in DOMAIN elements[e]
               /\ \E r \in 1..Len(elements[e].links) :
                     /\ elements[e].links[r].uri = links[k].uri
                     /\ DOMAIN elements[e].links[r] =
                           {"text", "uri", "start", "end"}

\* What _attach_links does: no heading ever carries links.
HeadingsCarryNoLinks ==
    pc = "links_done" =>
        \A e \in 1..Len(elements) :
            elements[e].type = "heading" => "links" \notin DOMAIN elements[e]

\* The runs of the element that the link's rectangle overlaps.
HitRuns(elem, link) ==
    {r \in 1..Len(elem.runs) : RunOverlapsLink(elem.runs[r], link.bbox)}

\* The link lies over two or more consecutive runs of a paragraph whose
\* spans were joined with single spaces (no "\n" run).
OverMultipleRuns(elem, link) ==
    /\ elem.type = "paragraph"
    /\ link.page_num = elem.page_num
    /\ Cardinality(HitRuns(elem, link)) >= 2
    /\ HitRuns(elem, link) = SetMin(HitRuns(elem, link))..SetMax(HitRuns(elem, link))
    /\ \A r \in 1..Len(elem.runs) : elem.runs[r].text # <<"\n">>

\* The text of the runs hit, as it stands in the paragraph text.
HitText(elem, link) ==
    Strip(Join([k \in 1..Cardinality(HitRuns(elem, link)) |->
                   elem.runs[SetMin(HitRuns(elem, link)) + k - 1].text], <<>>))

\* C28: when a link's rectangle overlaps two or more consecutive runs of a
\* paragraph whose spans were joined with single spaces, _attach_links
\* records a link range on the paragraph whose text is those runs' text as
\* it appears in the paragraph text.
C28_MultiRunLinkRecordedAsStated ==
    pc = "links_done" =>
        \A e \in 1..Len(elements) : \A k \in 1..Len(links) :
            OverMultipleRuns(elements[e], links[k]) =>
                /\ "links" \in DOMAIN elements[e]
                /\ \E r \in 1..Len(elements[e].links) :
                      /\ elements[e].links[r].uri = links[k].uri
                      /\ elements[e].links[r].text = HitText(elements[e], links[k])

\* What the code guarantees: every run after the first starts with the
\* joining space and the parts are joined with one more space, so the text
\* looked for has two spaces where the paragraph has one; it is not found
\* and the link is dropped.
MultiRunLinkDropped ==
    pc = "links_done" =>
        \A e \in 1..Len(elements) : \A k \in 1..Len(links) :
            OverMultipleRuns(elements[e], links[k]) =>
                /\ Find(elements[e].text,
                        LinkText(LinkTextParts(elements[e].runs, links[k]))) < 0
                /\ \A r \in 1..Len(Get(elements[e], "links", <<>>)) :
                      elements[e].links[r].uri # links[k].uri

\* "Visit our website today" in three spans, one link over the last two:
\* the paragraph carries no link.
LinkOverTwoRunsDropped ==
    /\ pc = "links_done"
    /\ Len(links) = 1
    /\ Len(elements) = 1
    /\ elements[1].type = "paragraph"
    /\ elements[1].text = VisitOurWebsiteToday
    /\ HitRuns(elements[1], links[1]) = {2, 3}
    /\ "links" \notin DOMAIN elements[1]

(***************************************************************************)
(* SemanticAnalyzer.analyze: the text of one page                          *)
(*                                                                         *)
(* The page has text spans only (no images, no tables).                    *)
(***************************************************************************)
\* _merge_clusters_to_max(clusters, max_columns)
RECURSIVE MergeClustersToMax(_, _)
MergeClustersToMax(cs, max_columns) ==
    IF TooManyClusters(cs, max_columns)
    THEN MergeClustersToMax(MergeClosest(cs), max_columns)
    ELSE cs

\* LayoutAnalyzer.analyze(page_blocks, page_width, page_height)
AnalyzeLayout(blocks, width, height) ==
    IF blocks = <<>> \/ width <= 0 \/ height <= 0
    THEN SingleColumnResult(blocks)
    ELSE LayoutResult(
            MergeClustersToMax(
                ClusterX0(SortedSet({blocks[i].x0 : i \in 1..Len(blocks)}), width),
                MAX_COLUMNS),
            blocks, width, height)

\* min_blocks_per_col = 3
MIN_BLOCKS_PER_COL == 3

\* real_cols: the columns with at least min_blocks_per_col blocks.
RealCols(result) ==
    Cardinality({c \in DOMAIN result.text_blocks_by_column :
                    Len(result.text_blocks_by_column[c]) >= MIN_BLOCKS_PER_COL})

\* The variant without the validation.
ValidatedColumnsUnchecked(result) == result.num_columns

\* num_columns after the validation: a layout of several columns counts
\* only if two of them are real columns.
ValidatedColumns(result) ==
    IF result.num_columns > 1 /\ RealCols(result) < 2 THEN 1
    ELSE result.num_columns

\* x0_counter[x] of _estimate_body_x0: the text length at the left edge x.
RECURSIVE X0Weight(_, _, _)
X0Weight(blocks, x, k) ==
    IF k = 0 THEN 0
    ELSE X0Weight(blocks, x, k - 1)
         + (IF blocks[k].x0 = x THEN Max(Len(blocks[k].text), 1) ELSE 0)

\* _estimate_body_x0(blocks): the left edge of the largest text length, the
\* first one inserted among equals.
EstimateBodyX0(blocks) ==
    IF blocks = <<>> THEN 0
    ELSE LET n == Len(blocks)
             w(i) == X0Weight(blocks, blocks[i].x0, n)
             best == SetMin({i \in 1..n : \A j \in 1..n : w(j) <= w(i)})
         IN  blocks[best].x0

\* The groups of the columns 0 .. c, column after column.
RECURSIVE ColumnGroups(_, _, _, _)
ColumnGroups(by_column, c, body_size, width) ==
    IF c < 0 THEN <<>>
    ELSE ColumnGroups(by_column, c - 1, body_size, width)
         \o GroupBlocks(by_column[c], body_size, width)

\* The variant that processes the last column only.
ColumnElementsLastOnly(by_column, c, page, body_size, headings, width) ==
    ProcessTextBlocks(by_column[c], page, body_size,
                      EstimateBodyX0(by_column[c]), headings, width)

\* text_elements of a multi-column page: the elements of the columns
\* 0 .. c, column after column (for col_idx in sorted(cols_blocks.keys())).
RECURSIVE ColumnElements(_, _, _, _, _, _)
ColumnElements(by_column, c, page, body_size, headings, width) ==
    IF c < 0 THEN <<>>
    ELSE ColumnElements(by_column, c - 1, page, body_size, headings, width)
         \o ProcessTextBlocks(by_column[c], page, body_size,
                              EstimateBodyX0(by_column[c]), headings, width)

\* e1 sorts before e2: key (_y0, _x0).
ElementBefore(e1, e2) ==
    e1._y0 < e2._y0 \/ (e1._y0 = e2._y0 /\ e1._x0 < e2._x0)

\* The variant of the sort that leaves the list as it is.
SortOrderKept(elems) == [k \in 1..Len(elems) |-> k]

\* page_elements.sort(key = (_y0, _x0)): the positions of elems in sorted
\* order; the sort is stable.
RECURSIVE SortOrder(_)
SortOrder(elems) ==
    IF elems = <<>> THEN <<>>
    ELSE LET n == Len(elems)
             init == SortOrder(SubSeq(elems, 1, n - 1))
             after == {k \in 1..(n - 1) : ElementBefore(elems[n], elems[init[k]])}
             pos == IF after = {} THEN n ELSE SetMin(after)
         IN  SubSeq(init, 1, pos - 1) \o <<n>> \o SubSeq(init, pos, n - 1)

\* elem.pop("_y0", None); elem.pop("_x0", None)
PopSortKeys(elem) == [key \in DOMAIN elem \ {"_y0", "_x0"} |-> elem[key]]

(***************************************************************************)
(* The page specification: analyze on a document of one page of text       *)
(***************************************************************************)
MaxPageLines == 3

\* The left edges of the text columns of the page: left, right, and a
\* narrow third column at the right margin.
ColumnX0 == <<72, 320, 530>>

\* What a column carries on a line: nothing, a line of the column's width,
\* or a line long enough to count as wrapped.
PageLineKinds == {"none", "line", "long"}

\* The span of column c on line i; the lines of the right column lie six
\* points lower than those of the left column, those of the third column
\* three points lower.
PageSpan(kind, c, i) ==
    LET y0 == LineY0(i) + (IF c = 2 THEN 6 ELSE IF c = 3 THEN 3 ELSE 0)
        x0 == ColumnX0[c]
    IN  Span(<<"a", "b">>, <<"T">>, 10, FALSE, FALSE, x0, y0,
             x0 + (IF kind = "long" THEN 285 ELSE IF c = 3 THEN 70 ELSE 200),
             y0 + 10, 0)

\* The spans of the page, sorted by y: line after line, the left column,
\* the third column (on its first third_lines lines), the right column.
RECURSIVE PageLinesBlocks(_, _, _)
PageLinesBlocks(kinds, third_lines, n) ==
    IF n = 0 THEN <<>>
    ELSE PageLinesBlocks(kinds, third_lines, n - 1)
         \o (IF kinds[1][n] = "none" THEN <<>> ELSE <<PageSpan(kinds[1][n], 1, n)>>)
         \o (IF n > third_lines THEN <<>> ELSE <<PageSpan("line", 3, n)>>)
         \o (IF kinds[2][n] = "none" THEN <<>> ELSE <<PageSpan(kinds[2][n], 2, n)>>)

InitPage ==
    /\ pc = "page_start"
    /\ \E kinds \in [1..2 -> [1..MaxPageLines -> PageLineKinds]] :
       \E third_lines \in 0..MaxPageLines :
          text_blocks = PageLinesBlocks(kinds, third_lines, MaxPageLines)
    /\ page_width = 612
    /\ page_height = 792
    /\ clusters = Idle
    /\ layout = Idle
    /\ font_size_counter = Idle
    /\ body_font = [name |-> <<"T">>, size |-> 10]
    /\ heading_fonts = <<>>
    /\ num_columns = 0
    /\ DocIdle
    /\ GroupIdle
    /\ links = Idle
    /\ TableIdle
    /\ ExtractIdle
    /\ FixIdle
    /\ StyleIdle
    /\ BuildIdle
    /\ WebIdle
    /\ HFIdle

\* A document without spans has no page to process.
PageNone ==
    /\ pc = "page_start"
    /\ text_blocks = <<>>
    /\ elements' = <<>>
    /\ groups' = <<>>
    /\ pc' = "page_done"
    /\ UNCHANGED <<text_blocks, num_columns, body_x0, regrouped, links,
                   fontVars, layoutVars, tableVars, hfVars, docVars,
                 extractVars, fixVars, styleVars, buildVars, webVars>>

\* layout = self._layout_analyzer.analyze(page_blocks, page_width, page_height)
PageLayout ==
    /\ pc = "page_start"
    /\ text_blocks # <<>>
    /\ layout' = AnalyzeLayout(text_blocks, page_width, page_height)
    /\ pc' = "page_layout"
    /\ UNCHANGED <<text_blocks, page_width, page_height, clusters, num_columns,
                   groupVars, links, fontVars, tableVars, hfVars, docVars,
                 extractVars, fixVars, styleVars, buildVars, webVars>>

\* The validation leaves one column: all spans are grouped together.
PageSingleColumn ==
    /\ pc = "page_layout"
    /\ ValidatedColumns(layout) <= 1
    /\ num_columns' = ValidatedColumns(layout)
    /\ elements' = ProcessTextBlocks(text_blocks, 0, body_font.size,
                                     EstimateBodyX0(text_blocks),
                                     heading_fonts, page_width)
    /\ groups' = GroupBlocks(text_blocks, body_font.size, page_width)
    /\ pc' = "page_text"
    /\ UNCHANGED <<text_blocks, body_x0, regrouped, links, fontVars,
                   layoutVars, tableVars, hfVars, docVars,
                 extractVars, fixVars, styleVars, buildVars, webVars>>

\* The validation accepts the columns: each column is grouped by itself,
\* the columns from left to right.
PageMultiColumn ==
    /\ pc = "page_layout"
    /\ ValidatedColumns(layout) > 1
    /\ num_columns' = ValidatedColumns(layout)
    /\ elements' = ColumnElements(layout.text_blocks_by_column,
                                  layout.num_columns - 1, 0, body_font.size,
                                  heading_fonts, page_width)
    /\ groups' = ColumnGroups(layout.text_blocks_by_column,
                              layout.num_columns - 1, body_font.size, page_width)
    /\ pc' = "page_text"
    /\ UNCHANGED <<text_blocks, body_x0, regrouped, links, fontVars,
                   layoutVars, tableVars, hfVars, docVars,
                 extractVars, fixVars, styleVars, buildVars, webVars>>

\* page_elements.sort(...), the sort keys are popped, elements.extend(...)
PageSort ==
    /\ pc = "page_text"
    /\ LET order == SortOrder(elements)
       IN  /\ elements' = [k \in 1..Len(order) |-> PopSortKeys(elements[order[k]])]
           /\ groups' = [k \in 1..Len(order) |-> groups[order[k]]]
    /\ pc' = "page_done"
    /\ UNCHANGED <<text_blocks, num_columns, body_x0, regrouped, links,
                   fontVars, layoutVars, tableVars, hfVars, docVars,
                 extractVars, fixVars, styleVars, buildVars, webVars>>

NextPage ==
    PageNone \/ PageLayout \/ PageSingleColumn \/ PageMultiColumn \/ PageSort

SpecPage == InitPage /\ [][NextPage]_vars

(***************************************************************************)
(* Claims about the order of a page's elements (checked under SpecPage)    *)
(***************************************************************************)
\* The column the layout put the spans of element k in.
ColumnOf(k) == AssignColumn(groups[k][1], layout.columns)

\* The multi-column layout of the page was accepted by analyze.
MultiColumnAccepted ==
    /\ pc = "page_done"
    /\ num_columns > 1
    /\ RealCols(layout) >= 2

\* The columns of the layout that hold at least three spans.
ColumnsOfThree ==
    {c \in DOMAIN layout.text_blocks_by_column :
        Len(layout.text_blocks_by_column[c]) >= 3}

\* The groups are those of all spans of the page taken as one column.
GroupedAsOneColumn ==
    groups = GroupBlocks(text_blocks, body_font.size, page_width)

\* Every group lies in one column of the layout, and the groups come
\* column after column.
GroupedByColumn ==
    /\ \A g \in 1..Len(groups) : \A b \in 1..Len(groups[g]) :
          AssignColumn(groups[g][b], layout.columns) = ColumnOf(g)
    /\ \A g \in 1..Len(groups) : \A h \in 1..Len(groups) :
          g < h => ColumnOf(g) <= ColumnOf(h)

\* C16: analyze treats a page as multi-column if and only if the layout
\* analyzer reports more than one column and at least two of the columns
\* hold three spans or more; in every other case all spans of the page are
\* grouped together as one column.
C16_MultiColumnIffTwoRealColumns ==
    pc = "page_text" =>
        /\ num_columns > 1 <=>
              layout.num_columns > 1 /\ Cardinality(ColumnsOfThree) >= 2
        /\ IF num_columns > 1 THEN GroupedByColumn ELSE GroupedAsOneColumn

\* A layout of two columns, of three spans and of two: the page is taken
\* as one column and the spans of both columns are grouped together.
C16_Witness ==
    /\ pc = "page_text"
    /\ layout.num_columns = 2
    /\ Len(layout.text_blocks_by_column[0]) = 3
    /\ Len(layout.text_blocks_by_column[1]) = 2
    /\ num_columns = 1
    /\ GroupedAsOneColumn
    /\ \E g \in 1..(Len(groups) - 1) : ColumnOf(g) > ColumnOf(g + 1)

\* A layout of three columns, of three spans, of one and of three: the page
\* is taken as multi-column.
C16_WitnessThreeColumns ==
    /\ pc = "page_text"
    /\ layout.num_columns = 3
    /\ Len(layout.text_blocks_by_column[0]) = 3
    /\ Len(layout.text_blocks_by_column[1]) = 1
    /\ Len(layout.text_blocks_by_column[2]) = 3
    /\ num_columns = 3
    /\ GroupedByColumn

\* C1, as stated: on a page whose multi-column layout was accepted, every
\* text element built from one column's spans precedes every text element
\* built from a column to its right, whatever their vertical positions.
\* analyze does not keep this: it sorts the elements of all columns by
\* (_y0, _x0).
C1_ColumnOrderAsStated ==
    MultiColumnAccepted =>
        \A i \in 1..Len(elements) : \A j \in 1..Len(elements) :
            ColumnOf(i) < ColumnOf(j) => i < j

\* What analyze does keep on every page: the elements are in the order of
\* the top of their first span.
PageOrderedByTop ==
    pc = "page_done" =>
        \A i \in 1..Len(elements) : \A j \in 1..Len(elements) :
            i < j => groups[i][1].y0 <= groups[j][1].y0

(***************************************************************************)
(* SemanticAnalyzer.analyze: the whole document                            *)
(***************************************************************************)
\* font_result = self._font_analyzer.analyze(text_blocks)
AnalyzeFonts(blocks) ==
    IF blocks = <<>>
    THEN [body_font |-> [name |-> <<"A", "r", "i", "a", "l">>, size |-> 12],
          heading_fonts |-> <<>>]
    ELSE LET counter == CountFonts(blocks)
             mc == MostCommon(counter)
         IN  [body_font |-> [name |-> mc.key.font, size |-> mc.key.size],
              heading_fonts |-> DetectHeadingFonts(blocks, counter, mc.key.size)]

\* page_count = len(pages_meta) if pages_meta else max(page_num ...) + 1
PageCount(blocks, meta) ==
    IF meta # <<>> THEN Len(meta)
    ELSE IF blocks = <<>> THEN 1
    ELSE SetMax({blocks[i].page_num : i \in 1..Len(blocks)}) + 1

\* _detect_headers_footers(text_blocks, pages_meta, page_count)
DetectHeadersFooters(blocks, meta, n) ==
    LET norm == NormTexts(blocks)
        headers == HeaderSet(blocks, norm, meta, n)
        footers == FooterSet(blocks, norm, meta, n)
        out == FilterBlocks(blocks, norm, headers, footers)
        unchanged == [header_set |-> {}, footer_set |-> {},
                      seen_headers |-> <<>>, seen_footers |-> <<>>,
                      filtered |-> blocks]
    IN  IF n < MIN_PAGE_COUNT \/ blocks = <<>> THEN unchanged
        ELSE IF headers = {} /\ footers = {}
        THEN unchanged
        ELSE [header_set |-> headers, footer_set |-> footers,
              seen_headers |-> out.seen_headers,
              seen_footers |-> out.seen_footers,
              filtered |-> out.filtered]

\* The entries of seq that belong to the page, in order:
\* blocks_by_page.get(page_num, []), and the images and tables of the page.
OfPage(seq, page_num) ==
    SelectAt(seq, {i \in 1..Len(seq) : seq[i].page_num = page_num})

\* all_page_nums: the pages of the spans left, of the images and the tables.
AllPageNums(blocks, imgs, tbls) ==
    {blocks[i].page_num : i \in 1..Len(blocks)}
    \cup {imgs[i].page_num : i \in 1..Len(imgs)}
    \cup {tbls[i].page_num : i \in 1..Len(tbls)}

\* The variant that breaks before every page, the first one included.
NeedsPageBreakAlways(prev, page_num) == page_num # prev

\* prev_page is not None and page_num != prev_page
NeedsPageBreak(prev, page_num) == prev # 0 - 1 /\ page_num # prev

\* _pg_meta = pages_meta[page_num] if page_num < len(pages_meta) else {}
PageMeta(meta, page_num) ==
    IF page_num < Len(meta) THEN meta[page_num + 1] ELSE <<>>

\* The page_break element of the upcoming page.  The margins entry of a
\* page is a dict of four lengths or is missing.
PageBreak(meta, page_num) ==
    LET pg == PageMeta(meta, page_num)
        orientation == IF Get(pg, "is_landscape", FALSE) THEN "landscape"
                       ELSE "portrait"
    IN  IF "margins" \in DOMAIN pg
        THEN [type |-> "page_break", page_num |-> page_num,
              orientation |-> orientation, margins |-> pg.margins]
        ELSE [type |-> "page_break", page_num |-> page_num,
              orientation |-> orientation]

\* _page_dimensions(pages_meta, page_num)
PageDimensions(meta, page_num) ==
    IF meta # <<>> /\ 0 <= page_num /\ page_num < Len(meta)
    THEN [width |-> Get(meta[page_num + 1], "width", 612),
          height |-> Get(meta[page_num + 1], "height", 792)]
    ELSE [width |-> 612, height |-> 792]

\* _make_image_element(img)
MakeImageElement(img) ==
    [type |-> "image", path |-> img.path, width |-> img.width,
     height |-> img.height, page_num |-> img.page_num,
     _y0 |-> img.y0, _x0 |-> img.x0]

\* _make_table_element(tbl), for a table without the enhanced data.
MakeTableElement(tbl) ==
    [type |-> "table", rows |-> tbl.rows, num_rows |-> Len(tbl.rows),
     num_cols |-> IF tbl.rows # <<>> THEN Len(tbl.rows[1]) ELSE 0,
     page_num |-> tbl.page_num, _y0 |-> tbl.y0, _x0 |-> tbl.x0]

\* text_elements of a page: the columns one after the other if the layout
\* of several columns is accepted, else all spans together.
PageTextElements(page_blocks, page_num, body_size, headings, dims) ==
    LET lay == AnalyzeLayout(page_blocks, dims.width, dims.height)
    IN  IF ValidatedColumns(lay) > 1
        THEN ColumnElements(lay.text_blocks_by_column, lay.num_columns - 1,
                            page_num, body_size, headings, dims.width)
        ELSE ProcessTextBlocks(page_blocks, page_num, body_size,
                               EstimateBodyX0(page_blocks), headings,
                               dims.width)

\* page_elements of a page: text, images and tables, sorted, sort keys
\* popped.
PageElements(blocks, imgs, tbls, page_num, body_size, headings, meta) ==
    LET page_images == OfPage(imgs, page_num)
        page_tables == OfPage(tbls, page_num)
        all == PageTextElements(OfPage(blocks, page_num), page_num, body_size,
                                headings, PageDimensions(meta, page_num))
               \o [k \in 1..Len(page_images) |-> MakeImageElement(page_images[k])]
               \o [k \in 1..Len(page_tables) |-> MakeTableElement(page_tables[k])]
        order == SortOrder(all)
    IN  [k \in 1..Len(order) |-> PopSortKeys(all[order[k]])]

\* The variant that inserts a footer element whatever footer_texts is.
InsertFooterAlways(elems, footers) ==
    <<[type |-> "footer", text |-> Join(footers, <<"\n">>)]>> \o elems

\* if footer_texts: elements.insert(0, {"type": "footer", ...})
InsertFooter(elems, footers) ==
    IF footers # <<>>
    THEN <<[type |-> "footer", text |-> Join(footers, <<"\n">>)]>> \o elems
    ELSE elems

\* The variant that appends the header element.
InsertHeaderLast(elems, headers) ==
    IF headers # <<>>
    THEN elems \o <<[type |-> "header", text |-> Join(headers, <<"\n">>)]>>
    ELSE elems

\* if header_texts: elements.insert(0, {"type": "header", ...})
InsertHeader(elems, headers) ==
    IF headers # <<>>
    THEN <<[type |-> "header", text |-> Join(headers, <<"\n">>)]>> \o elems
    ELSE elems

(***************************************************************************)
(* The document specification: analyze on a document of a few pages        *)
(***************************************************************************)
MaxDocPages == 3

\* What a page holds: nothing; a body line; a running head and a body line;
\* a running head, a running foot and a body line; a body line and a running
\* foot; a running head alone; an image and a table; a bullet line; a title
\* and a body line.
DocPageKinds == {"empty", "body", "head_body", "head_foot_body", "foot_body",
                 "head", "figure", "bullet", "title_body"}

\* A span of the document's font over the width of the text area.
DocSpan(text, size, y0, page_num) ==
    Span(text, <<"T">>, size, FALSE, FALSE, 72, y0, 480, y0 + size, page_num)

HeadSpan(page_num) == DocSpan(<<"H">>, 10, 20, page_num)
FootSpan(page_num) == DocSpan(<<"F">>, 10, 750, page_num)
BodySpan(page_num) == DocSpan(<<"a", "b">>, 10, LineY0(2), page_num)

\* The spans of a page, sorted by y.
DocPageBlocks(kind, page_num) ==
    CASE kind = "body" -> <<BodySpan(page_num)>>
      [] kind = "head_body" -> <<HeadSpan(page_num), BodySpan(page_num)>>
      [] kind = "head_foot_body" ->
            <<HeadSpan(page_num), BodySpan(page_num), FootSpan(page_num)>>
      [] kind = "foot_body" -> <<BodySpan(page_num), FootSpan(page_num)>>
      [] kind = "head" -> <<HeadSpan(page_num)>>
      [] kind = "bullet" -> <<DocSpan(<<"-", " ", "a">>, 10, LineY0(2), page_num)>>
      [] kind = "title_body" ->
            <<DocSpan(<<"T">>, 14, LineY0(1) - 6, page_num), BodySpan(page_num)>>
      [] OTHER -> <<>>

DocPageImages(kind, page_num) ==
    IF kind = "figure"
    THEN <<[path |-> <<"p">>, width |-> 100, height |-> 50,
            page_num |-> page_num, y0 |-> 200, x0 |-> 72]>>
    ELSE <<>>

DocPageTables(kind, page_num) ==
    IF kind = "figure"
    THEN <<[rows |-> <<<<<<"c">>>>>>, page_num |-> page_num,
            y0 |-> 300, x0 |-> 72]>>
    ELSE <<>>

\* The entries of pages 0 .. n-1, page after page.
RECURSIVE DocEntries(_, _, _)
DocEntries(Entries(_, _), kinds, n) ==
    IF n = 0 THEN <<>>
    ELSE DocEntries(Entries, kinds, n - 1) \o Entries(kinds[n], n - 1)

\* The metadata of a page: odd pages are landscape and have margins.
MetaOfPage(page_num) ==
    IF page_num % 2 = 1
    THEN [width |-> 792, height |-> 612, is_landscape |-> TRUE,
          margins |-> [top |-> 36, bottom |-> 36, left |-> 36, right |-> 36]]
    ELSE [width |-> 612, height |-> 792, is_landscape |-> FALSE]

\* metadata["pages"]: missing, complete, or of the first page only.
MetaVariants == {"none", "full", "short"}

DocMeta(variant, n) ==
    CASE variant = "none" -> <<>>
      [] variant = "full" -> [p \in 1..n |-> MetaOfPage(p - 1)]
      [] variant = "short" -> <<MetaOfPage(0)>>

\* links: none, or one link over the body line of page 0.
DocLinks ==
    {<<>>, <<[bbox |-> <<60, LineY0(2) + 1, 500, LineY0(2) + 9>>,
              page_num |-> 0, uri |-> 1]>>}

InitAnalyze ==
    /\ pc = "analyze_start"
    /\ \E kinds \in [1..MaxDocPages -> DocPageKinds] :
          /\ text_blocks = DocEntries(DocPageBlocks, kinds, MaxDocPages)
          /\ images = DocEntries(DocPageImages, kinds, MaxDocPages)
          /\ tables = DocEntries(DocPageTables, kinds, MaxDocPages)
    /\ \E variant \in MetaVariants : pages_meta = DocMeta(variant, MaxDocPages)
    /\ links \in DocLinks
    /\ all_page_nums = {}
    /\ prev_page = 0 - 1
    /\ page_count = 0
    /\ header_set = {}
    /\ footer_set = {}
    /\ header_texts = Idle
    /\ footer_texts = Idle
    /\ filtered_blocks = Idle
    /\ FontIdle
    /\ LayoutIdle
    /\ TableIdle
    /\ ExtractIdle
    /\ FixIdle
    /\ StyleIdle
    /\ BuildIdle
    /\ WebIdle
    /\ GroupIdle
    /\ num_columns = 0

\* The font analysis of all spans.
AnalyzeFontStep ==
    /\ pc = "analyze_start"
    /\ body_font' = AnalyzeFonts(text_blocks).body_font
    /\ heading_fonts' = AnalyzeFonts(text_blocks).heading_fonts
    /\ pc' = "analyze_fonts"
    /\ UNCHANGED <<text_blocks, font_size_counter, layoutVars, tableVars,
                   hfVars, groupVars, links, num_columns, docVars,
                 extractVars, fixVars, styleVars, buildVars, webVars>>

\* The running heads and feet are detected and removed, the pages with
\* content collected.
AnalyzeHeadersFooters ==
    /\ pc = "analyze_fonts"
    /\ page_count' = PageCount(text_blocks, pages_meta)
    /\ LET out == DetectHeadersFooters(text_blocks, pages_meta, page_count')
       IN  /\ header_set' = out.header_set
           /\ footer_set' = out.footer_set
           /\ header_texts' = out.seen_headers
           /\ footer_texts' = out.seen_footers
           /\ filtered_blocks' = out.filtered
    /\ all_page_nums' = AllPageNums(filtered_blocks', images, tables)
    /\ elements' = <<>>
    /\ prev_page' = 0 - 1
    /\ pc' = "analyze_pages"
    /\ UNCHANGED <<text_blocks, pages_meta, fontVars, layoutVars, tableVars,
                   body_x0, groups, regrouped, links, num_columns, images,
                   tables,
                 extractVars, fixVars, styleVars, buildVars, webVars>>

\* The pages of all_page_nums not processed yet.
PagesLeft == {p \in all_page_nums : p > prev_page}

\* One round of the loop over sorted(all_page_nums).
AnalyzePage ==
    /\ pc = "analyze_pages"
    /\ PagesLeft # {}
    /\ LET page_num == SetMin(PagesLeft)
           dims == PageDimensions(pages_meta, page_num)
       IN  /\ elements' =
                 elements
                 \o (IF NeedsPageBreak(prev_page, page_num)
                     THEN <<PageBreak(pages_meta, page_num)>> ELSE <<>>)
                 \o PageElements(filtered_blocks, images, tables, page_num,
                                 body_font.size, heading_fonts, pages_meta)
           /\ prev_page' = page_num
           /\ page_width' = dims.width
           /\ page_height' = dims.height
    /\ UNCHANGED <<pc, text_blocks, fontVars, clusters, layout, tableVars,
                   hfVars, body_x0, groups, regrouped, links, num_columns,
                   images, tables, all_page_nums,
                 extractVars, fixVars, styleVars, buildVars, webVars>>

\* self._attach_links(elements, links)
AnalyzeAttachLinks ==
    /\ pc = "analyze_pages"
    /\ PagesLeft = {}
    /\ elements' = AttachLinks(elements, links)
    /\ pc' = "analyze_links"
    /\ UNCHANGED <<text_blocks, fontVars, layoutVars, tableVars, hfVars,
                   body_x0, groups, regrouped, links, num_columns, docVars,
                 extractVars, fixVars, styleVars, buildVars, webVars>>

\* The footer element is inserted at the start, then the header element.
AnalyzeInsert ==
    /\ pc = "analyze_links"
    /\ elements' = InsertHeader(InsertFooter(elements, footer_texts),
                                header_texts)
    /\ pc' = "analyze_done"
    /\ UNCHANGED <<text_blocks, fontVars, layoutVars, tableVars, hfVars,
                   body_x0, groups, regrouped, links, num_columns, docVars,
                 extractVars, fixVars, styleVars, buildVars, webVars>>

NextAnalyze ==
    \/ AnalyzeFontStep
    \/ AnalyzeHeadersFooters
    \/ AnalyzePage
    \/ AnalyzeAttachLinks
    \/ AnalyzeInsert

SpecAnalyze == InitAnalyze /\ [][NextAnalyze]_vars

AnalyzeDone == pc = "analyze_done"

(***************************************************************************)
(* Claims about analyze on a document (checked under SpecAnalyze)          *)
(***************************************************************************)
\* The input is one page with exactly one text span, which is at the body
\* size, and no images, links or tables.
SingleSpanInput ==
    /\ Len(text_blocks) = 1
    /\ text_blocks[1].page_num = 0
    /\ Len(pages_meta) <= 1
    /\ images = <<>>
    /\ tables = <<>>
    /\ links = <<>>
    /\ text_blocks[1].size = body_font.size

\* The links of an element as its readers take them:
\* element.get("links", []).
LinksOf(elem) == Get(elem, "links", <<>>)

\* analyze returned exactly one element, a paragraph of page 0 without links.
OneParagraphOfPageZero ==
    /\ Len(elements) = 1
    /\ elements[1].type = "paragraph"
    /\ elements[1].page_num = 0
    /\ LinksOf(elements[1]) = <<>>

\* C11, as stated: every single-page input of exactly one text span at the
\* body size and no images, links or tables gives exactly one element, a
\* paragraph with page_num = 0 and no links.  A span whose text starts with
\* a bullet character becomes a list item instead.
C11_SingleSpanParagraphAsStated ==
    AnalyzeDone /\ SingleSpanInput => OneParagraphOfPageZero

\* C11, amended: every single-page input of exactly one text span at the
\* body size whose stripped text does not start with a bullet character or
\* an ordered-list prefix, and no images, links or tables, gives exactly one
\* element, a paragraph with page_num = 0 and no links.
C11_SingleSpanParagraph ==
    AnalyzeDone /\ SingleSpanInput /\ ~IsListStart(Strip(text_blocks[1].text))
        => OneParagraphOfPageZero

\* The span "ab" alone came out as one paragraph.
C11_Witness ==
    /\ AnalyzeDone
    /\ SingleSpanInput
    /\ text_blocks[1].text = <<"a", "b">>
    /\ OneParagraphOfPageZero
    /\ elements[1].text = <<"a", "b">>

\* The positions of the returned list behind the header and footer elements.
ContentPositions ==
    {i \in 1..Len(elements) : elements[i].type \notin {"header", "footer"}}

\* The positions of the page_break elements, and of the elements of pages.
BreakPositions == {i \in ContentPositions : elements[i].type = "page_break"}
ItemPositions == ContentPositions \ BreakPositions

\* The pages that have content: a span left after the removal of running
\* heads and feet, an image or a table.
PagesWithContent ==
    {p \in 0..(MaxDocPages - 1) :
        \/ \E i \in 1..Len(filtered_blocks) : filtered_blocks[i].page_num = p
        \/ \E i \in 1..Len(images) : images[i].page_num = p
        \/ \E i \in 1..Len(tables) : tables[i].page_num = p}

\* The page_break at position b carries the orientation and the margins of
\* its page's metadata (portrait and no margins for a page without
\* metadata).
CarriesPageMeta(b) ==
    LET brk == elements[b]
        p == brk.page_num
    IN  IF p < Len(pages_meta)
        THEN /\ brk.orientation = (IF pages_meta[p + 1].is_landscape
                                   THEN "landscape" ELSE "portrait")
             /\ ("margins" \in DOMAIN brk) = ("margins" \in DOMAIN pages_meta[p + 1])
             /\ "margins" \in DOMAIN brk => brk.margins = pages_meta[p + 1].margins
        ELSE /\ brk.orientation = "portrait"
             /\ "margins" \notin DOMAIN brk

\* C12: analyze emits the pages in increasing page_num order, with exactly
\* one page_break between the elements of consecutive pages with content
\* and none before the first: content on k pages gives k-1 page_break
\* elements, and each of them follows all elements of lower pages, comes
\* directly before the elements of its page and carries that page's
\* page_num, orientation and margins.
C12_PageBreaksBetweenPages ==
    AnalyzeDone =>
        /\ {elements[i].page_num : i \in ItemPositions} = PagesWithContent
        /\ \A i \in ItemPositions : \A j \in ItemPositions :
              i < j => elements[i].page_num <= elements[j].page_num
        /\ Cardinality(BreakPositions) = Max(Cardinality(PagesWithContent) - 1, 0)
        /\ {elements[b].page_num : b \in BreakPositions}
              = PagesWithContent \ {SetMin(PagesWithContent \cup {MaxDocPages})}
        /\ \A b \in BreakPositions :
              /\ \E j \in ItemPositions : j < b
              /\ \A j \in ItemPositions :
                    /\ j < b => elements[j].page_num < elements[b].page_num
                    /\ j > b => elements[j].page_num >= elements[b].page_num
              /\ b + 1 \in ItemPositions
              /\ elements[b + 1].page_num = elements[b].page_num
              /\ CarriesPageMeta(b)

\* Three pages with content: two page breaks, the one of page 1 landscape
\* with margins, the one of page 2 portrait without.
C12_Witness ==
    /\ AnalyzeDone
    /\ Cardinality(PagesWithContent) = 3
    /\ Cardinality(BreakPositions) = 2
    /\ \E b \in BreakPositions :
          /\ elements[b].page_num = 1
          /\ elements[b].orientation = "landscape"
          /\ "margins" \in DOMAIN elements[b]
    /\ \E b \in BreakPositions :
          /\ elements[b].page_num = 2
          /\ elements[b].orientation = "portrait"
          /\ "margins" \notin DOMAIN elements[b]

\* C13: when running heads or feet are detected, their elements are at the
\* start of the returned list: the header element (if any) is the first
\* element, the footer element (if any) comes directly after it (or is the
\* first element when there is no header), and every other element comes
\* after them.
C13_HeaderFooterFirst ==
    AnalyzeDone =>
        LET has_header == header_set # {}
            has_footer == footer_set \ header_set # {}
            footer_at == IF has_header THEN 2 ELSE 1
        IN  /\ has_header =>
                  elements[1] = [type |-> "header",
                                 text |-> Join(header_texts, <<"\n">>)]
            /\ has_footer =>
                  elements[footer_at] = [type |-> "footer",
                                         text |-> Join(footer_texts, <<"\n">>)]
            /\ \A i \in 1..Len(elements) :
                  /\ elements[i].type = "header" => has_header /\ i = 1
                  /\ elements[i].type = "footer" => has_footer /\ i = footer_at

\* A document with a running head and a running foot on three pages: the
\* header element, the footer element, then the pages.
C13_Witness ==
    /\ AnalyzeDone
    /\ header_set = {<<"H">>}
    /\ footer_set = {<<"F">>}
    /\ Len(elements) > 2
    /\ elements[1].type = "header"
    /\ elements[2].type = "footer"
    /\ elements[3].type = "paragraph"

\* A document with a running foot only: the footer element is the first.
C13_WitnessFooterOnly ==
    /\ AnalyzeDone
    /\ header_set = {}
    /\ footer_set = {<<"F">>}
    /\ elements[1].type = "footer"
    /\ elements[2].type = "paragraph"

(***************************************************************************)
(* The classification specification: _finalize_group on one group          *)
(***************************************************************************)
MaxGroupSpans == 2

\* The text of the group's first span: prose, a bullet, a bullet behind
\* whitespace, a number with ".", a roman numeral with ")", a number with
\* "." and no whitespace behind it, and whitespace alone.
FirstSpanTexts ==
    {<<"a", "b">>,
     <<"-", " ", "a">>,
     <<" ", "U+2022", "a">>,
     <<"1", "0", ".", " ", "a">>,
     <<"i", "v", ")", " ", "a">>,
     <<"1", ".", "a">>,
     <<" ">>}

ClassifySizes == {10, 12, 14}

\* The font of the group, with and without a subset prefix.
ClassifyFonts == {<<"T">>, <<"A", "B", "C", "D", "E", "F", "+", "T">>}

\* heading_fonts: none, size 14, sizes 14 and 12.
ClassifyHeadings ==
    {<<>>,
     <<[name |-> <<"T">>, size |-> 14, level |-> 1]>>,
     <<[name |-> <<"T">>, size |-> 14, level |-> 1],
       [name |-> <<"T">>, size |-> 12, level |-> 2]>>}

\* A group of n spans: the first with the given text, the later ones prose
\* on the lines below it.
ClassifyGroup(text, font, size, n) ==
    [k \in 1..n |->
        Span(IF k = 1 THEN text ELSE <<"a", "b">>, font, size, FALSE, FALSE,
             72, LineY0(k), 480, LineY0(k) + size, 0)]

InitClassify ==
    /\ pc = "classify_start"
    /\ \E text \in FirstSpanTexts, font \in ClassifyFonts,
          size \in ClassifySizes, n \in 1..MaxGroupSpans :
          groups = <<ClassifyGroup(text, font, size, n)>>
    /\ heading_fonts \in ClassifyHeadings
    /\ body_font = [name |-> <<"T">>, size |-> 10]
    /\ font_size_counter = Idle
    /\ text_blocks = Idle
    /\ body_x0 = 72
    /\ elements = Idle
    /\ regrouped = Idle
    /\ page_width = 612
    /\ page_height = 792
    /\ clusters = Idle
    /\ layout = Idle
    /\ links = Idle
    /\ num_columns = 0
    /\ DocIdle
    /\ TableIdle
    /\ ExtractIdle
    /\ FixIdle
    /\ StyleIdle
    /\ BuildIdle
    /\ WebIdle
    /\ HFIdle

\* self._finalize_group(group, ...)
ClassifyFinalize ==
    /\ pc = "classify_start"
    /\ elements' = <<FinalizeGroup(groups[1], 0, body_font.size, body_x0,
                                   heading_fonts)>>
    /\ pc' = "classify_done"
    /\ UNCHANGED <<text_blocks, fontVars, layoutVars, tableVars, hfVars,
                   body_x0, groups, regrouped, links, num_columns, docVars,
                 extractVars, fixVars, styleVars, buildVars, webVars>>

NextClassify == ClassifyFinalize

SpecClassify == InitClassify /\ [][NextClassify]_vars

(***************************************************************************)
(* Claims about _finalize_group (checked under SpecClassify)               *)
(***************************************************************************)
\* The (prefix-stripped font, size) of the group's first span is a heading
\* combination.
KnownHeading(group) ==
    \E h \in 1..Len(heading_fonts) :
        /\ heading_fonts[h].name = StripSubsetPrefix(group[1].font)
        /\ heading_fonts[h].size = group[1].size

\* The text of the group: the texts of its spans, joined and stripped.
GroupText(group) == Strip(JoinTexts(group, Len(group), group[1].size))

\* C14: the classification follows the priority heading > list item >
\* paragraph: a group whose first span's (prefix-stripped font, size) is a
\* heading combination becomes a heading, even when its text starts with a
\* bullet or an ordered-list prefix; otherwise a group whose text starts
\* with a bullet or an ordered-list prefix becomes a list item; every other
\* group becomes a paragraph.
C14_ClassificationPriority ==
    pc = "classify_done" =>
        LET group == groups[1]
        IN  elements[1].type =
                IF KnownHeading(group) THEN "heading"
                ELSE IF IsListStart(GroupText(group)) THEN "list_item"
                ELSE "paragraph"

\* A group in a heading font whose text starts with a bullet became a
\* heading.
C14_Witness ==
    /\ pc = "classify_done"
    /\ KnownHeading(groups[1])
    /\ groups[1][1].text = <<"-", " ", "a">>
    /\ elements[1].type = "heading"
    /\ elements[1].text = <<"-", " ", "a">>

\* A group in the body font whose text starts with an ordered-list prefix
\* became a list item.
C14_WitnessListItem ==
    /\ pc = "classify_done"
    /\ ~KnownHeading(groups[1])
    /\ groups[1][1].text = <<"i", "v", ")", " ", "a">>
    /\ elements[1].type = "list_item"
    /\ elements[1].bullet_type = "number"

(***************************************************************************)
(* TableExtractor.extract                                                  *)
(*                                                                         *)
(* A table found by page.find_tables() is a record {bbox, raw_rows,        *)
(* raises}: raw_rows is what table.extract() returns (a cell is a text or  *)
(* None), raises names the step of the loop body at which the table object *)
(* raises an exception ("none": at no step).  The result dict keeps bbox,  *)
(* rows, num_rows, num_cols, page_num and table_height; col_widths,        *)
(* header_row, row_heights and cell_styles depend on the page's geometry   *)
(* and are left out.                                                       *)
(***************************************************************************)
NoneCell == <<"None">>

\* cell if cell is not None else ""
ReplaceNone(raw_rows) ==
    [r \in 1..Len(raw_rows) |->
        [c \in 1..Len(raw_rows[r]) |->
            IF raw_rows[r][c] = NoneCell THEN <<>> ELSE raw_rows[r][c]]]

\* Step 3 of _collapse_empty_columns: merge the first complementary pair
\* and scan again, until one column is left or every pair overlaps.
RECURSIVE MergeComplementary(_)
MergeComplementary(grid) ==
    IF grid = <<>> \/ Len(grid[1]) <= 1
    THEN grid
    ELSE LET free == {ci \in 1..(Len(grid[1]) - 1) : ~Overlap(grid, ci)}
         IN  IF free = {}
             THEN grid
             ELSE MergeComplementary(
                      MergeColumns(grid, CHOOSE ci \in free : \A cj \in free : ci <= cj))

\* _collapse_empty_columns(rows)
CollapseEmptyColumns(grid) ==
    IF grid = <<>> THEN grid
    ELSE IF NumCols(grid) <= 1 THEN grid
    ELSE IF KeptIndices(grid) = <<>> THEN grid
    ELSE MergeComplementary(FilterRows(grid))

\* [row for row in rows if any(cell.strip() for cell in row)]
DropEmptyRows(grid) ==
    SelectSeq(grid, LAMBDA row : \E c \in 1..Len(row) : Strip(row[c]) # <<>>)

\* The steps of the loop body that call into the table object.
TableSteps == {"bbox", "extract", "cell_styles"}

\* rows, after the None cells, the empty columns and the empty rows are gone.
KeptRows(table) ==
    DropEmptyRows(CollapseEmptyColumns(ReplaceNone(table.raw_rows)))

\* The table object raises at some step, or no row is left: every path of
\* _compute_row_heights evaluates 1.0 / num_rows, the except clause
\* included, so num_rows = 0 ends in a ZeroDivisionError.
Fails(table) == table.raises \in TableSteps \/ KeptRows(table) = <<>>

\* The dict appended to results for a table that does not fail.
TableResult(table, page_num) ==
    LET kept_rows == KeptRows(table)
    IN  [bbox |-> table.bbox,
         rows |-> kept_rows,
         num_rows |-> Len(kept_rows),
         num_cols |-> IF kept_rows = <<>> THEN 0 ELSE NumCols(kept_rows),
         page_num |-> page_num,
         table_height |-> table.bbox[4] - table.bbox[2]]

\* The loop body without the inner try: the failure reaches the outer
\* handler, which returns the empty list.
ExtractTableUnguarded(res, table, page_num) ==
    IF Fails(table) THEN <<>> ELSE Append(res, TableResult(table, page_num))

\* The body of the loop over the tables: the dict is appended at the end of
\* the try block; an exception raised before that is logged and the loop
\* continues with the next table.
ExtractTable(res, table, page_num) ==
    IF Fails(table) THEN res ELSE Append(res, TableResult(table, page_num))

(***************************************************************************)
(* The extraction specification: extract on one page                       *)
(***************************************************************************)
MaxPageTables == 3

\* A 2 x 3 grid with an empty middle column (collapsed to two columns:
\* the columns "a" and "b" overlap in no row and are merged into one) and
\* a grid of one row whose cells are all None (no row is left of it).
RawGrids ==
    {<<<<<<"a">>, NoneCell, <<>>>>, <<<<>>, <<" ">>, <<"b">>>>>>,
     <<<<<<"a">>, <<"b">>>>, <<<<"c">>, <<"d">>>>>>,
     <<<<NoneCell, NoneCell>>>>}

\* The i-th table of the page, 60 points high.
PageTable(i, grid, raises) ==
    [bbox |-> <<72, 100 * i, 300, 100 * i + 60>>,
     raw_rows |-> grid,
     raises |-> raises]

InitExtract ==
    /\ pc = "extract_start"
    /\ \E n \in 0..MaxPageTables :
       \E grids \in [1..n -> RawGrids] :
       \E raises \in [1..n -> {"none"} \cup TableSteps] :
       \E find_tables \in {"missing", "raises", "ok"} :
       \E page_num \in {0, 2} :
          fitz_page = [find_tables |-> find_tables,
                       page_num |-> page_num,
                       tables |-> [i \in 1..n |-> PageTable(i, grids[i], raises[i])]]
    /\ table_index = 0
    /\ results = Idle
    /\ text_blocks = Idle
    /\ FontIdle
    /\ LayoutIdle
    /\ TableIdle
    /\ SemIdle
    /\ FixIdle
    /\ StyleIdle
    /\ BuildIdle
    /\ WebIdle

\* if not hasattr(page, "find_tables"): return []
ExtractUnavailable ==
    /\ pc = "extract_start"
    /\ fitz_page.find_tables = "missing"
    /\ results' = <<>>
    /\ pc' = "extract_done"
    /\ UNCHANGED <<fitz_page, table_index, text_blocks, fontVars, layoutVars,
                   tableVars, semVars, fixVars, styleVars, buildVars, webVars>>

\* page.find_tables() raises: the outer handler returns [].
ExtractFindRaises ==
    /\ pc = "extract_start"
    /\ fitz_page.find_tables = "raises"
    /\ results' = <<>>
    /\ pc' = "extract_done"
    /\ UNCHANGED <<fitz_page, table_index, text_blocks, fontVars, layoutVars,
                   tableVars, semVars, fixVars, styleVars, buildVars, webVars>>

\* tables = page.find_tables(); results = []
ExtractFind ==
    /\ pc = "extract_start"
    /\ fitz_page.find_tables = "ok"
    /\ results' = <<>>
    /\ table_index' = 0
    /\ pc' = "extract_loop"
    /\ UNCHANGED <<fitz_page, text_blocks, fontVars, layoutVars, tableVars,
                   semVars, fixVars, styleVars, buildVars, webVars>>

\* One iteration of the loop over the tables.
ExtractNext ==
    /\ pc = "extract_loop"
    /\ table_index < Len(fitz_page.tables)
    /\ results' = ExtractTable(results, fitz_page.tables[table_index + 1],
                               fitz_page.page_num)
    /\ table_index' = table_index + 1
    /\ UNCHANGED <<pc, fitz_page, text_blocks, fontVars, layoutVars, tableVars,
                   semVars, fixVars, styleVars, buildVars, webVars>>

\* return results
ExtractReturn ==
    /\ pc = "extract_loop"
    /\ table_index = Len(fitz_page.tables)
    /\ pc' = "extract_done"
    /\ UNCHANGED <<fitz_page, table_index, results, text_blocks, fontVars,
                   layoutVars, tableVars, semVars, fixVars, styleVars, buildVars, webVars>>

NextExtract ==
    ExtractUnavailable \/ ExtractFindRaises \/ ExtractFind \/ ExtractNext
        \/ ExtractReturn

SpecExtract == InitExtract /\ [][NextExtract]_vars

(***************************************************************************)
(* Claims about TableExtractor.extract (checked under SpecExtract)         *)
(***************************************************************************)
\* The tables of the page that process without error.
Processable ==
    {i \in 1..Len(fitz_page.tables) : ~Fails(fitz_page.tables[i])}

\* C18: a failure while processing one table of a page is isolated: the
\* table that failed is absent from the result, every other table of the
\* page that processes without error is returned (once, in page order, with
\* the page number), and extract returns: the loop runs to the end of the
\* tables.
C18_TableFailureIsolated ==
    /\ pc = "extract_loop" => table_index <= Len(fitz_page.tables)
    /\ pc = "extract_done" /\ fitz_page.find_tables = "ok" =>
          LET page_tables == fitz_page.tables
          IN  /\ table_index = Len(page_tables)
              /\ \A i \in (1..Len(page_tables)) \ Processable :
                    \A r \in 1..Len(results) : results[r].bbox # page_tables[i].bbox
              /\ \A i \in Processable :
                    \E r \in 1..Len(results) :
                        /\ results[r].bbox = page_tables[i].bbox
                        /\ results[r].page_num = fitz_page.page_num
                        /\ results[r].rows = KeptRows(page_tables[i])
                        /\ results[r].num_rows = Len(results[r].rows)
                        /\ results[r].num_rows > 0
              /\ Len(results) = Cardinality(Processable)
              /\ \A q, r \in 1..Len(results) :
                    q < r => results[q].bbox[2] < results[r].bbox[2]

\* extract returned for a page of three tables whose second table raised
\* in table.extract(): the first and the third table are the result.
C18_Witness ==
    /\ pc = "extract_done"
    /\ fitz_page.find_tables = "ok"
    /\ Len(fitz_page.tables) = 3
    /\ fitz_page.tables[1].raises = "none"
    /\ fitz_page.tables[2].raises = "extract"
    /\ fitz_page.tables[3].raises = "none"
    /\ fitz_page.tables[2].raw_rows # <<<<NoneCell, NoneCell>>>>
    /\ Len(results) = 2
    /\ results[1].bbox = fitz_page.tables[1].bbox
    /\ results[2].bbox = fitz_page.tables[3].bbox

\* extract returned for a page whose first table is left without rows
\* (ZeroDivisionError in _compute_row_heights): the second table is the
\* result.
C18_WitnessNoRows ==
    /\ pc = "extract_done"
    /\ fitz_page.find_tables = "ok"
    /\ Len(fitz_page.tables) = 2
    /\ fitz_page.tables[1].raises = "none"
    /\ fitz_page.tables[1].raw_rows = <<<<NoneCell, NoneCell>>>>
    /\ fitz_page.tables[2].raises = "none"
    /\ Len(results) = 1
    /\ results[1].bbox = fitz_page.tables[2].bbox

(***************************************************************************)
(* CorrectionEngine.apply_fixes and _fix_font_size                         *)
(*                                                                         *)
(* The document is a record {paragraphs, tables}: a paragraph is the       *)
(* sequence of its runs {text, size}, size being run.font.size in EMU      *)
(* (0 for None); a table is a sequence of rows, a row a sequence of cells, *)
(* a cell a sequence of paragraphs.  A difference is a record of its keys; *)
(* the record with the key not_a_dict stands for a value that is no dict.  *)
(* One call of apply_fixes on a newly constructed engine is modelled.      *)
(***************************************************************************)
EMUS_PER_PT == 12700

\* The upper-case letters of the model's texts and their lower case.
UpperLetters == <<"A", "B", "C", "D", "E", "F", "T", "H", "V">>
LowerLetters == <<"a", "b", "c", "d", "e", "f", "t", "h", "v">>

\* str.lower()
Lower(str) ==
    [i \in 1..Len(str) |->
        IF \E k \in 1..Len(UpperLetters) : UpperLetters[k] = str[i]
        THEN LowerLetters[CHOOSE k \in 1..Len(UpperLetters) : UpperLetters[k] = str[i]]
        ELSE str[i]]

DigitValue(ch) == CHOOSE d \in 0..9 : <<"0", "1", "2", "3", "4", "5", "6", "7", "8", "9">>[d + 1] = ch

\* The value of a sequence of digits.
RECURSIVE DigitsValue(_)
DigitsValue(digits) ==
    IF digits = <<>> THEN 0
    ELSE 10 * DigitsValue(SubSeq(digits, 1, Len(digits) - 1))
             + DigitValue(digits[Len(digits)])

\* The end of the longest run of digits of value that starts at position i.
DigitRunEnd(value, i) ==
    SetMax({j \in i..Len(value) : \A k \in i..j : value[k] \in Digits})

RECURSIVE Power10(_)
Power10(n) == IF n = 0 THEN 1 ELSE 10 * Power10(n - 1)

\* _parse_pt_value: re.search(r"(\d+(?:\.\d+)?)", value), the leftmost
\* number; the float is the fraction num / den.
ParsePtValue(value) ==
    LET starts == {i \in 1..Len(value) : value[i] \in Digits}
    IN  IF value = <<>> \/ starts = {}
        THEN [found |-> FALSE]
        ELSE LET i == SetMin(starts)
                 j == DigitRunEnd(value, i)
                 has_frac == /\ j + 2 <= Len(value)
                             /\ value[j + 1] = "."
                             /\ value[j + 2] \in Digits
                 k == IF has_frac THEN DigitRunEnd(value, j + 2) ELSE j
             IN  IF has_frac
                 THEN [found |-> TRUE,
                       num |-> DigitsValue(SubSeq(value, i, j)) * Power10(k - j - 1)
                                   + DigitsValue(SubSeq(value, j + 2, k)),
                       den |-> Power10(k - j - 1)]
                 ELSE [found |-> TRUE,
                       num |-> DigitsValue(SubSeq(value, i, j)),
                       den |-> 1]

\* Pt(size_val): int(size_val * 12700) EMU
Pt(size_val) == (size_val.num * EMUS_PER_PT) \div size_val.den

\* paragraph.text: the texts of the runs, concatenated
ParagraphText(para) == Flatten([r \in 1..Len(para) |-> para[r].text])

\* _all_paragraphs: the body paragraphs, then those of every table cell.
AllParagraphs(doc) == doc.paragraphs \o Flatten(Flatten(Flatten(doc.tables)))

\* _text_matches: the shorter string is a substring of the longer one.
TextMatches(text_content, paragraph_text) ==
    LET a == Lower(text_content)
        b == Lower(paragraph_text)
    IN  /\ a # <<>> /\ b # <<>>
        /\ IF Len(a) <= Len(b) THEN Find(b, a) >= 0 ELSE Find(a, b) >= 0

\* Whether _find_target_runs takes the runs of the paragraph.
IsTarget(diff, para) ==
    LET text_content == Strip(Get(diff, "text_content", <<>>))
    IN  Len(text_content) < 3 \/ TextMatches(text_content, ParagraphText(para))

\* _find_target_runs
FindTargetRuns(doc, diff) ==
    Flatten(SelectSeq(AllParagraphs(doc), LAMBDA para : IsTarget(diff, para)))

\* run.font.size = size for every run of the target paragraphs
ResizeParagraphs(paras, diff, size) ==
    [q \in 1..Len(paras) |->
        IF IsTarget(diff, paras[q])
        THEN [r \in 1..Len(paras[q]) |-> [paras[q][r] EXCEPT !.size = size]]
        ELSE paras[q]]

ResizeRuns(doc, diff, size) ==
    [paragraphs |-> ResizeParagraphs(doc.paragraphs, diff, size),
     tables |-> [t \in 1..Len(doc.tables) |->
                   [r \in 1..Len(doc.tables[t]) |->
                       [c \in 1..Len(doc.tables[t][r]) |->
                           ResizeParagraphs(doc.tables[t][r][c], diff, size)]]]]

\* size_val = _parse_pt_value(diff.get("expected_value", ""))
ExpectedSize(diff) == ParsePtValue(Get(diff, "expected_value", <<>>))

\* _fix_font_size: the document and the counter after the handler.
FixFontSize(doc, count, diff) ==
    LET size_val == ExpectedSize(diff)
    IN  IF ~size_val.found
        THEN [doc |-> doc, count |-> count]
        ELSE [doc |-> ResizeRuns(doc, diff, Pt(size_val)),
              count |-> count + Len(FindTargetRuns(doc, diff))]

\* _handlers: the types with a handler; those of SKIP_TYPES are mapped to
\* _skip_handler, which only logs.
SKIP_TYPES ==
    {"font_family", "underline", "image", "layout", "missing_content",
     "extra_content"}

IsDict(diff) == "not_a_dict" \notin DOMAIN diff

\* The validation loop: dicts with a "type" key.
ValidDiffs(diffs) ==
    SelectSeq(diffs, LAMBDA diff : IsDict(diff) /\ "type" \in DOMAIN diff)

(***************************************************************************)
(* The correction specification: one call of apply_fixes                   *)
(***************************************************************************)
MaxDiffs == 2

DocxRun(text, size) == [text |-> text, size |-> size]

\* The documents: one without paragraphs, one with a paragraph that has no
\* run, and one with two body paragraphs (the first of 12 pt) and a table
\* of one row and two cells.
Documents ==
    {[paragraphs |-> <<>>, tables |-> <<>>],
     [paragraphs |-> <<<<>>>>, tables |-> <<>>],
     [paragraphs |-> <<<<DocxRun(<<"A", " ", "T", "e", "s", "t">>, 12 * EMUS_PER_PT)>>,
                       <<DocxRun(<<"m", "o", "r", "e">>, 0)>>>>,
      tables |-> <<<<<<<<<<DocxRun(<<"H", "1">>, 0)>>>>,
                      <<<<DocxRun(<<"t", "e", "s", "t", "s">>, 0)>>>>>>>>>>]}

FontSizeDiff(issue) ==
    [type |-> "font_size", issue |-> issue, area |-> "test", severity |-> "medium"]

DiffChoices ==
    {FontSizeDiff("font size too small"),
     FontSizeDiff("font size too large"),
     FontSizeDiff("font size too small") @@ [expected_value |-> <<"1", "4", "p", "t">>],
     FontSizeDiff("font size too large") @@
         [expected_value |-> <<"~", "9", ".", "5", "p", "x">>,
          text_content |-> <<" ", "t", "e", "s", "t", " ">>],
     FontSizeDiff("font size too small") @@ [expected_value |-> <<"b", "i", "g">>],
     FontSizeDiff("font size too small") @@
         [expected_value |-> <<"1", "2">>, text_content |-> <<"z", "z", "z">>],
     [type |-> "layout", issue |-> "column order", area |-> "test", severity |-> "low"],
     [type |-> "margin", issue |-> "margin too wide", area |-> "test", severity |-> "low"],
     [issue |-> "font size too small", area |-> "test", severity |-> "medium"],
     [not_a_dict |-> TRUE]}

InitFixes ==
    /\ pc = "fixes_start"
    /\ document \in Documents
    /\ \E n \in 0..MaxDiffs : differences \in [1..n -> DiffChoices]
    /\ valid_diffs = Idle
    /\ diff_index = 0
    /\ fixes_applied = 0
    /\ saved = FALSE
    /\ text_blocks = Idle
    /\ FontIdle
    /\ LayoutIdle
    /\ TableIdle
    /\ SemIdle
    /\ ExtractIdle
    /\ StyleIdle
    /\ BuildIdle
    /\ WebIdle

\* if not differences: return 0
FixesNone ==
    /\ pc = "fixes_start"
    /\ differences = <<>>
    /\ pc' = "fixes_done"
    /\ UNCHANGED <<text_blocks, fontVars, layoutVars, tableVars, semVars,
                   extractVars, fixVars, styleVars, buildVars, webVars>>

\* self._fixes_applied = 0 and the validation loop, no difference valid:
\* return 0
FixesNoneValid ==
    /\ pc = "fixes_start"
    /\ differences # <<>>
    /\ ValidDiffs(differences) = <<>>
    /\ fixes_applied' = 0
    /\ valid_diffs' = <<>>
    /\ pc' = "fixes_done"
    /\ UNCHANGED <<document, differences, diff_index, saved, text_blocks,
                   fontVars, layoutVars, tableVars, semVars, extractVars, styleVars, buildVars, webVars>>

\* self._fixes_applied = 0 and the validation loop
FixesValidate ==
    /\ pc = "fixes_start"
    /\ differences # <<>>
    /\ ValidDiffs(differences) # <<>>
    /\ fixes_applied' = 0
    /\ valid_diffs' = ValidDiffs(differences)
    /\ diff_index' = 0
    /\ pc' = "fixes_loop"
    /\ UNCHANGED <<document, differences, saved, text_blocks, fontVars,
                   layoutVars, tableVars, semVars, extractVars, styleVars, buildVars, webVars>>

\* One iteration of the loop over valid_diffs, type font_size.
FixesFontSize ==
    /\ pc = "fixes_loop"
    /\ diff_index < Len(valid_diffs)
    /\ valid_diffs[diff_index + 1].type = "font_size"
    /\ LET after == FixFontSize(document, fixes_applied, valid_diffs[diff_index + 1])
       IN  /\ document' = after.doc
           /\ fixes_applied' = after.count
    /\ diff_index' = diff_index + 1
    /\ UNCHANGED <<pc, differences, valid_diffs, saved, text_blocks, fontVars,
                   layoutVars, tableVars, semVars, extractVars, styleVars, buildVars, webVars>>

\* One iteration for a type mapped to _skip_handler or to no handler.
FixesSkip ==
    /\ pc = "fixes_loop"
    /\ diff_index < Len(valid_diffs)
    /\ valid_diffs[diff_index + 1].type # "font_size"
    /\ diff_index' = diff_index + 1
    /\ UNCHANGED <<pc, document, differences, valid_diffs, fixes_applied, saved,
                   text_blocks, fontVars, layoutVars, tableVars, semVars,
                   extractVars, styleVars, buildVars, webVars>>

\* After the loop with no fix applied: return self._fixes_applied
FixesReturn ==
    /\ pc = "fixes_loop"
    /\ diff_index = Len(valid_diffs)
    /\ fixes_applied = 0
    /\ pc' = "fixes_done"
    /\ UNCHANGED <<text_blocks, fontVars, layoutVars, tableVars, semVars,
                   extractVars, fixVars, styleVars, buildVars, webVars>>

\* After the loop with fixes applied: self._doc.save(self.docx_path), then
\* return self._fixes_applied
FixesSave ==
    /\ pc = "fixes_loop"
    /\ diff_index = Len(valid_diffs)
    /\ fixes_applied > 0
    /\ saved' = TRUE
    /\ pc' = "fixes_done"
    /\ UNCHANGED <<document, differences, valid_diffs, diff_index, fixes_applied,
                   text_blocks, fontVars, layoutVars, tableVars, semVars,
                   extractVars, styleVars, buildVars, webVars>>

\* self._doc.save raises: the exception is logged and raised again.
FixesSaveFails ==
    /\ pc = "fixes_loop"
    /\ diff_index = Len(valid_diffs)
    /\ fixes_applied > 0
    /\ pc' = "fixes_raised"
    /\ UNCHANGED <<text_blocks, fontVars, layoutVars, tableVars, semVars,
                   extractVars, fixVars, styleVars, buildVars, webVars>>

NextFixes ==
    FixesNone \/ FixesNoneValid \/ FixesValidate \/ FixesFontSize \/ FixesSkip
        \/ FixesReturn \/ FixesSave \/ FixesSaveFails

SpecFixes == InitFixes /\ [][NextFixes]_vars

(***************************************************************************)
(* Claims about CorrectionEngine (checked under SpecFixes)                 *)
(***************************************************************************)
\* The document contains text runs.
HasRuns(doc) == Flatten(AllParagraphs(doc)) # <<>>

\* One difference of type font_size with the fields type, issue, area and
\* severity, whose issue says too small or too large.
SingleFontSizeDiff ==
    /\ Len(differences) = 1
    /\ IsDict(differences[1])
    /\ {"type", "issue", "area", "severity"} \subseteq DOMAIN differences[1]
    /\ differences[1].type = "font_size"
    /\ differences[1].issue \in {"font size too small", "font size too large"}

\* C19, as stated: apply_fixes, given a single difference of type font_size
\* whose issue says the font is too small (or too large) and that has the
\* fields type, issue, area and severity, applied to a document that
\* contains text runs, returns a count greater than 0.  _fix_font_size
\* takes the size from expected_value only and returns without a fix when
\* it cannot parse one.
C19_FontSizeFixAppliedAsStated ==
    pc = "fixes_done" /\ SingleFontSizeDiff /\ HasRuns(document) =>
        fixes_applied > 0

\* What apply_fixes returns for a single font_size difference: the number
\* of target runs when expected_value holds a number, and 0 when it does
\* not; the issue plays no part.
FontSizeFixNeedsExpectedValue ==
    pc = "fixes_done" /\ SingleFontSizeDiff =>
        /\ fixes_applied =
              IF ExpectedSize(differences[1]).found
              THEN Len(FindTargetRuns(document, differences[1]))
              ELSE 0
        /\ saved <=> fixes_applied > 0

\* apply_fixes returned after setting the four runs of the document to
\* 14 pt (expected_value "14pt", no text_content).
FontSizeFixed ==
    /\ pc = "fixes_done"
    /\ SingleFontSizeDiff
    /\ fixes_applied = 4
    /\ saved
    /\ \A q \in 1..Len(document.paragraphs) :
          \A r \in 1..Len(document.paragraphs[q]) :
              document.paragraphs[q][r].size = 14 * EMUS_PER_PT


(***************************************************************************)
(* TableExtractor._detect_header_row                                       *)
(*                                                                         *)
(* header_input holds what one call sees: rows (the cleaned rows), cells   *)
(* (table.cells; <<>> stands for None and for the empty list), spans (the  *)
(* spans page.get_text returns for the first row's rectangle, in reading   *)
(* order) and raises (get_text raises).  A span is a record with the       *)
(* optional keys flags and font.                                           *)
(***************************************************************************)
MaxHeaderSpans == 3

\* span.get("flags", 0) & 16
BoldFlag(span) == (Get(span, "flags", 0) \div 16) % 2 = 1

\* "bold" in fname or "heavy" in fname or "black" in fname, fname being
\* span.get("font", "").lower()
BoldFontName(span) ==
    LET fname == Lower(Get(span, "font", <<>>))
    IN  \/ Find(fname, <<"b", "o", "l", "d">>) >= 0
        \/ Find(fname, <<"h", "e", "a", "v", "y">>) >= 0
        \/ Find(fname, <<"b", "l", "a", "c", "k">>) >= 0

\* The first loop's bold_count and the second loop's bold_font_count.
BoldCount(spans) == Cardinality({i \in 1..Len(spans) : BoldFlag(spans[i])})
BoldFontCount(spans) == Cardinality({i \in 1..Len(spans) : BoldFontName(spans[i])})

\* all_bold = bold_count + bold_font_count
AllBold(spans) == BoldCount(spans) + BoldFontCount(spans)

\* A count that takes each span once.
AllBoldOnce(spans) ==
    Cardinality({i \in 1..Len(spans) : BoldFlag(spans[i]) \/ BoldFontName(spans[i])})

\* max((len(r) for r in rows), default=0)
HeaderNumCols(hrows) ==
    IF hrows = <<>> THEN 0 ELSE SetMax({Len(hrows[r]) : r \in 1..Len(hrows)})

\* total_count > 0 and all_bold / total_count > 0.5
MajorityBold(spans) ==
    Len(spans) > 0 /\ 2 * AllBold(spans) > Len(spans)

HeaderFlags == {0, 2, 16, 18}
HeaderFonts ==
    {<<"S", "a", "n", "s">>, <<"S", "-", "B", "o", "l", "d">>,
     <<"H", "e", "a", "v", "y">>, <<"B", "l", "a", "c", "k">>}
HeaderSpans ==
    [flags : HeaderFlags, font : HeaderFonts]
        \cup [font : HeaderFonts] \cup [flags : HeaderFlags]
HeaderRows ==
    {<<>>, <<<<"a", "b">>>>, <<<<>>, <<>>>>,
     <<<<"a", "b">>, <<"c", "d">>>>, <<<<"a">>, <<"b">>, <<"c">>>>}
HeaderCells == {<<>>, <<<<0, 0, 50, 10>>, <<50, 0, 100, 10>>>>}

InitHeader ==
    /\ pc = "header_call"
    /\ text_blocks = <<>>
    /\ FontIdle
    /\ LayoutIdle
    /\ TableIdle
    /\ HFIdle
    /\ GroupIdle
    /\ DocIdle
    /\ SemIdle
    /\ ExtractIdle
    /\ FixIdle
    /\ BuildIdle
    /\ WebIdle
    /\ header_input \in
         [rows : HeaderRows, cells : HeaderCells,
          spans : SeqsUpTo(HeaderSpans, 1), raises : BOOLEAN]
           \cup [rows : {<<<<"a", "b">>, <<"c", "d">>>>},
                 cells : {<<<<0, 0, 50, 10>>, <<50, 0, 100, 10>>>>},
                 spans : SeqsUpTo(HeaderSpans, MaxHeaderSpans), raises : {FALSE}]
    /\ header_row = FALSE
    /\ cell_page = Idle
    /\ draw_index = 0
    /\ best_fill = Idle
    /\ best_area = 0

\* if len(rows) < 2: return False
HeaderFewRows ==
    /\ pc = "header_call"
    /\ Len(header_input.rows) < 2
    /\ header_row' = FALSE
    /\ pc' = "header_done"
    /\ UNCHANGED <<text_blocks, fontVars, layoutVars, tableVars, semVars,
                   extractVars, fixVars, header_input, cell_page, draw_index,
                   best_fill, best_area, buildVars, webVars>>

\* if not cells or num_cols == 0: return False
HeaderNoCells ==
    /\ pc = "header_call"
    /\ Len(header_input.rows) >= 2
    /\ \/ header_input.cells = <<>>
       \/ HeaderNumCols(header_input.rows) = 0
    /\ header_row' = FALSE
    /\ pc' = "header_done"
    /\ UNCHANGED <<text_blocks, fontVars, layoutVars, tableVars, semVars,
                   extractVars, fixVars, header_input, cell_page, draw_index,
                   best_fill, best_area, buildVars, webVars>>

\* page.get_text raises: the except clause logs and False is returned.
HeaderRaises ==
    /\ pc = "header_call"
    /\ Len(header_input.rows) >= 2
    /\ header_input.cells # <<>>
    /\ HeaderNumCols(header_input.rows) # 0
    /\ header_input.raises
    /\ header_row' = FALSE
    /\ pc' = "header_done"
    /\ UNCHANGED <<text_blocks, fontVars, layoutVars, tableVars, semVars,
                   extractVars, fixVars, header_input, cell_page, draw_index,
                   best_fill, best_area, buildVars, webVars>>

\* The two counting loops and the comparison.
HeaderCount ==
    /\ pc = "header_call"
    /\ Len(header_input.rows) >= 2
    /\ header_input.cells # <<>>
    /\ HeaderNumCols(header_input.rows) # 0
    /\ ~header_input.raises
    /\ header_row' = MajorityBold(header_input.spans)
    /\ pc' = "header_done"
    /\ UNCHANGED <<text_blocks, fontVars, layoutVars, tableVars, semVars,
                   extractVars, fixVars, header_input, cell_page, draw_index,
                   best_fill, best_area, buildVars, webVars>>

NextHeader == HeaderFewRows \/ HeaderNoCells \/ HeaderRaises \/ HeaderCount

SpecHeader == InitHeader /\ [][NextHeader]_vars

\* C23: _detect_header_row returns true only if the table has at least two
\* rows and strictly more than half of the spans of the first row are bold,
\* a span being bold, and counted once, when its bold flag is set or its
\* font name contains bold, heavy or black.
C23_HeaderOnlyIfMajorityBoldAsStated ==
    pc = "header_done" /\ header_row =>
        /\ Len(header_input.rows) >= 2
        /\ 2 * AllBoldOnce(header_input.spans) > Len(header_input.spans)

\* What the code guarantees: the flag count and the font-name count are
\* added, so a span with both is counted twice.
HeaderIffDoubleCountMajority ==
    pc = "header_done" =>
        (header_row <=>
            /\ Len(header_input.rows) >= 2
            /\ header_input.cells # <<>>
            /\ HeaderNumCols(header_input.rows) # 0
            /\ ~header_input.raises
            /\ Len(header_input.spans) > 0
            /\ 2 * (BoldCount(header_input.spans)
                      + BoldFontCount(header_input.spans))
                 > Len(header_input.spans))

\* One of three spans is bold, by flag and by font name, and the row is
\* taken for a header.
HeaderFromOneBoldSpanOfThree ==
    /\ pc = "header_done"
    /\ header_row
    /\ Len(header_input.spans) = 3
    /\ AllBoldOnce(header_input.spans) = 1


(***************************************************************************)
(* TableExtractor._detect_cell_background                                  *)
(*                                                                         *)
(* cell_page holds what one call sees: drawings (page.get_drawings(), in   *)
(* the page's order), rect (the cell, (x0, y0, x1, y1)) and raises         *)
(* (get_drawings raises).  A drawing is a record with the optional keys    *)
(* fill (three components in hundredths, 100 for 1.0) and rect; None is    *)
(* <<>>.  One step of the model is one iteration of the loop.              *)
(***************************************************************************)
MaxDrawings == 3

\* dr & rect
Intersect(a, b) ==
    <<Max(a[1], b[1]), Max(a[2], b[2]), Min(a[3], b[3]), Min(a[4], b[4])>>

\* Rect.is_empty
IsEmpty(r) == r[1] >= r[3] \/ r[2] >= r[4]

\* rect.width * rect.height
Area(r) == (r[3] - r[1]) * (r[4] - r[2])

\* overlap.width * overlap.height of a drawing that has a rectangle
OverlapArea(d, rect) == Area(Intersect(d.rect, rect))

\* (int(fill[0] * 255), int(fill[1] * 255), int(fill[2] * 255))
FillColour(fill) ==
    <<(fill[1] * 255) \div 100, (fill[2] * 255) \div 100, (fill[3] * 255) \div 100>>

\* The drawing reaches the comparison with best_area: it has a fill and a
\* rectangle and its overlap is more than half of a cell of positive area.
CoversCell(d, rect) ==
    /\ Get(d, "fill", Idle) # Idle
    /\ Get(d, "rect", Idle) # Idle
    /\ ~IsEmpty(Intersect(d.rect, rect))
    /\ Area(rect) > 0
    /\ 2 * OverlapArea(d, rect) > Area(rect)

\* if overlap_area > best_area
Beats(d, rect, area) == OverlapArea(d, rect) > area

WHITE == <<255, 255, 255>>

CellRects == {<<0, 0, 10, 10>>, <<0, 0, 0, 10>>}
Fills == {<<100, 100, 100>>, <<50, 50, 50>>, <<100, 0, 0>>}
DrawingChoices ==
    [fill : Fills, rect : {<<0, 0, 10, 10>>, <<0, 0, 10, 8>>, <<0, 0, 10, 5>>}]
        \cup {[fill |-> <<100, 100, 100>>, rect |-> <<0 - 5, 0 - 5, 20, 20>>],
              [fill |-> <<50, 50, 50>>, rect |-> <<20, 20, 30, 30>>],
              [fill |-> <<100, 100, 99>>, rect |-> <<0, 0, 10, 9>>],
              [fill |-> <<50, 50, 50>>], [rect |-> <<0, 0, 10, 10>>]}

InitBackground ==
    /\ pc = "background_call"
    /\ text_blocks = <<>>
    /\ FontIdle
    /\ LayoutIdle
    /\ TableIdle
    /\ HFIdle
    /\ GroupIdle
    /\ DocIdle
    /\ SemIdle
    /\ ExtractIdle
    /\ FixIdle
    /\ BuildIdle
    /\ WebIdle
    /\ header_input = Idle
    /\ header_row = FALSE
    /\ cell_page \in
         [drawings : SeqsUpTo(DrawingChoices, MaxDrawings),
          rect : {<<0, 0, 10, 10>>}, raises : {FALSE}]
           \cup [drawings : SeqsUpTo(DrawingChoices, 1),
                 rect : CellRects, raises : BOOLEAN]
    /\ draw_index = 0
    /\ best_fill = Idle
    /\ best_area = 0

\* page.get_drawings() raises: except Exception: return None
BackgroundRaises ==
    /\ pc = "background_call"
    /\ cell_page.raises
    /\ best_fill' = Idle
    /\ pc' = "background_done"
    /\ UNCHANGED <<text_blocks, fontVars, layoutVars, tableVars, semVars,
                   extractVars, fixVars, header_input, header_row, cell_page,
                   draw_index, best_area, buildVars, webVars>>

\* drawings = page.get_drawings(); best_fill = None; best_area = 0.0
BackgroundStart ==
    /\ pc = "background_call"
    /\ ~cell_page.raises
    /\ best_fill' = Idle
    /\ best_area' = 0
    /\ draw_index' = 0
    /\ pc' = "background_loop"
    /\ UNCHANGED <<text_blocks, fontVars, layoutVars, tableVars, semVars,
                   extractVars, fixVars, header_input, header_row, cell_page, buildVars, webVars>>

\* One iteration of "for d in drawings".
BackgroundVisit ==
    /\ pc = "background_loop"
    /\ draw_index < Len(cell_page.drawings)
    /\ LET d == cell_page.drawings[draw_index + 1]
           rect == cell_page.rect
       IN  IF CoversCell(d, rect) /\ Beats(d, rect, best_area)
           THEN /\ best_area' = OverlapArea(d, rect)
                /\ best_fill' = IF FillColour(d.fill) # WHITE
                                THEN FillColour(d.fill)
                                ELSE best_fill
           ELSE UNCHANGED <<best_area, best_fill, buildVars, webVars>>
    /\ draw_index' = draw_index + 1
    /\ UNCHANGED <<pc, text_blocks, fontVars, layoutVars, tableVars, semVars,
                   extractVars, fixVars, header_input, header_row, cell_page, buildVars, webVars>>

\* return best_fill
BackgroundReturn ==
    /\ pc = "background_loop"
    /\ draw_index = Len(cell_page.drawings)
    /\ pc' = "background_done"
    /\ UNCHANGED <<text_blocks, fontVars, layoutVars, tableVars, semVars,
                   extractVars, fixVars, styleVars, buildVars, webVars>>

NextBackground ==
    BackgroundRaises \/ BackgroundStart \/ BackgroundVisit \/ BackgroundReturn

SpecBackground == InitBackground /\ [][NextBackground]_vars

\* The drawings the statement is about: the fill overlaps more than half of
\* the cell and is not pure white.
Qualifies(i) ==
    /\ CoversCell(cell_page.drawings[i], cell_page.rect)
    /\ FillColour(cell_page.drawings[i].fill) # WHITE

Qualifying == {i \in 1..Len(cell_page.drawings) : Qualifies(i)}

\* C24: _detect_cell_background returns the fill colour of the drawing with
\* the largest overlap area among the drawings whose fill overlaps more
\* than half of the cell and is not pure white, whatever the order of the
\* drawings, and returns no colour only when there is no such drawing.
C24_LargestQualifyingFillAsStated ==
    pc = "background_done" /\ ~cell_page.raises =>
        IF Qualifying = {}
        THEN best_fill = Idle
        ELSE \E i \in Qualifying :
                /\ \A j \in Qualifying :
                       OverlapArea(cell_page.drawings[j], cell_page.rect)
                           <= OverlapArea(cell_page.drawings[i], cell_page.rect)
                /\ best_fill = FillColour(cell_page.drawings[i].fill)

\* The drawings that raise best_area: each covers the cell with a larger
\* overlap than every drawing listed before it, white ones included.
Record(i) ==
    /\ CoversCell(cell_page.drawings[i], cell_page.rect)
    /\ \A j \in 1..(i - 1) :
           CoversCell(cell_page.drawings[j], cell_page.rect) =>
               OverlapArea(cell_page.drawings[j], cell_page.rect)
                   < OverlapArea(cell_page.drawings[i], cell_page.rect)

ColouredRecords == {i \in Qualifying : Record(i)}

\* What the code guarantees: the result is the colour of the last drawing
\* in page order that raised best_area and is not white; a white drawing
\* that raises best_area hides every later drawing with a smaller or equal
\* overlap.
BackgroundIsLastColouredRecord ==
    pc = "background_done" /\ ~cell_page.raises =>
        IF ColouredRecords = {}
        THEN best_fill = Idle
        ELSE best_fill = FillColour(cell_page.drawings[SetMax(ColouredRecords)].fill)

\* A white drawing over the whole cell is listed before a grey one over
\* most of it, and no colour is returned.
WhiteHidesLaterFill ==
    /\ pc = "background_done"
    /\ Len(cell_page.drawings) = 2
    /\ cell_page.drawings[1] = [fill |-> <<100, 100, 100>>, rect |-> <<0, 0, 10, 10>>]
    /\ cell_page.drawings[2] = [fill |-> <<50, 50, 50>>, rect |-> <<0, 0, 10, 8>>]
    /\ best_fill = Idle

\* The same two drawings in the other order give the grey fill.
GreyFoundWhenListedFirst ==
    /\ pc = "background_done"
    /\ Len(cell_page.drawings) = 2
    /\ cell_page.drawings[2] = [fill |-> <<100, 100, 100>>, rect |-> <<0, 0, 10, 10>>]
    /\ cell_page.drawings[1] = [fill |-> <<50, 50, 50>>, rect |-> <<0, 0, 10, 8>>]
    /\ best_fill = <<127, 127, 127>>


(***************************************************************************)
(* DocxBuilder.build on the element list of SemanticAnalyzer.analyze       *)
(*                                                                         *)
(* The builder walks the list analyze returned (elements); docx_body is    *)
(* the sequence of what it adds to the document: kind is the element type  *)
(* handled, or "images_inline" for one paragraph holding several pictures, *)
(* and paths are the pictures.  Image files exist and the handlers do not  *)
(* raise; what a handler writes for a text element is not modelled.        *)
(***************************************************************************)
MaxBuildImages == 3

\* nxt_y0 < cur_y1 and nxt_y1 > cur_y0
YRangesOverlap(nxt_y0, nxt_y1, cur_y0, cur_y1) ==
    nxt_y0 < cur_y1 /\ nxt_y1 > cur_y0

\* The while loop over peek: the position of the last element of
\* images_to_add (positions count from 1).
RECURSIVE LastImageToAdd(_, _, _, _)
LastImageToAdd(structure_map, peek, cur_y0, cur_y1) ==
    IF peek > Len(structure_map) THEN peek - 1
    ELSE LET nxt == structure_map[peek]
             nxt_y0 == Get(nxt, "_y0", 0)
             nxt_y1 == nxt_y0 + Get(nxt, "height", 0)
         IN  IF nxt.type # "image" THEN peek - 1
             ELSE IF YRangesOverlap(nxt_y0, nxt_y1, cur_y0, cur_y1)
             THEN LastImageToAdd(structure_map, peek + 1, cur_y0,
                                 Max(cur_y1, nxt_y1))
             ELSE peek - 1

\* images_to_add of the element at position first, as positions.
ImagesToAdd(structure_map, first) ==
    LET cur_y0 == Get(structure_map[first], "_y0", 0)
        cur_y1 == cur_y0 + Get(structure_map[first], "height", 0)
    IN  first..LastImageToAdd(structure_map, first + 1, cur_y0, cur_y1)

\* extra["_merged"] = True
MarkMerged(elem) ==
    [key \in DOMAIN elem \cup {"_merged"} |->
        IF key = "_merged" THEN TRUE ELSE elem[key]]

\* _add_images_inline(images_to_add): one paragraph, one run per picture.
AddImagesInline(structure_map, positions) ==
    [kind |-> "images_inline",
     paths |-> [k \in 1..Cardinality(positions) |->
                   structure_map[SetMin(positions) + k - 1].path]]

\* handler(element) of handler_dispatch
Handle(element) ==
    IF element.type = "image"
    THEN [kind |-> "image", paths |-> <<element.path>>]
    ELSE [kind |-> element.type, paths |-> <<>>]

BuildY0s == {100, 300}
BuildHeights == {0, 50, 250}
BuildImage(k, y0, height) ==
    [path |-> <<"p", <<"1", "2", "3", "4", "5">>[k]>>, width |-> 100,
     height |-> height, page_num |-> 0, y0 |-> y0, x0 |-> 72]

InitBuild ==
    /\ pc = "analyze_start"
    /\ text_blocks \in {<<>>, <<DocSpan(<<"a">>, 10, 200, 0)>>}
    /\ \E n \in 0..MaxBuildImages :
         \E ys \in [1..n -> BuildY0s], hs \in [1..n -> BuildHeights] :
            images = [k \in 1..n |-> BuildImage(k, ys[k], hs[k])]
    /\ tables = <<>>
    /\ pages_meta = <<>>
    /\ links = <<>>
    /\ all_page_nums = {}
    /\ prev_page = 0 - 1
    /\ page_count = 0
    /\ header_set = {}
    /\ footer_set = {}
    /\ header_texts = Idle
    /\ footer_texts = Idle
    /\ filtered_blocks = Idle
    /\ FontIdle
    /\ LayoutIdle
    /\ TableIdle
    /\ ExtractIdle
    /\ FixIdle
    /\ StyleIdle
    /\ BuildIdle
    /\ WebIdle
    /\ GroupIdle
    /\ num_columns = 0

\* self._skipped = 0; self._setup_document(...); the loop starts.
BuildStart ==
    /\ pc = "analyze_done"
    /\ build_idx' = 0
    /\ docx_body' = <<>>
    /\ pc' = "build_loop"
    /\ UNCHANGED <<text_blocks, fontVars, layoutVars, tableVars, semVars,
                   extractVars, fixVars, styleVars, webVars>>

\* One round of "for idx, element in enumerate(structure_map)".
BuildElement ==
    /\ pc = "build_loop"
    /\ build_idx < Len(elements)
    /\ LET first == build_idx + 1
           element == elements[first]
           to_add == IF element.type = "image"
                     THEN ImagesToAdd(elements, first) ELSE {first}
       IN  IF Cardinality(to_add) > 1
           THEN /\ elements' = [k \in 1..Len(elements) |->
                                   IF k \in to_add \ {first}
                                   THEN MarkMerged(elements[k])
                                   ELSE elements[k]]
                /\ docx_body' = Append(docx_body, AddImagesInline(elements, to_add))
           ELSE /\ elements' = elements
                /\ docx_body' = IF Get(element, "_merged", FALSE)
                                THEN docx_body
                                ELSE Append(docx_body, Handle(element))
    /\ build_idx' = build_idx + 1
    /\ UNCHANGED <<pc, text_blocks, fontVars, layoutVars, tableVars, hfVars,
                   body_x0, groups, regrouped, links, num_columns, docVars,
                   extractVars, fixVars, styleVars, webVars>>

\* return self._save(output_path)
BuildSave ==
    /\ pc = "build_loop"
    /\ build_idx = Len(elements)
    /\ pc' = "build_done"
    /\ UNCHANGED <<text_blocks, fontVars, layoutVars, tableVars, semVars,
                   extractVars, fixVars, styleVars, buildVars, webVars>>

NextBuild == NextAnalyze \/ BuildStart \/ BuildElement \/ BuildSave

SpecBuild == InitBuild /\ [][NextBuild]_vars

\* The image of the input that an image element was made from.
SourceImage(elem) ==
    images[CHOOSE k \in 1..Len(images) : images[k].path = elem.path]

\* The vertical spans [y0, y0 + height] on the page of the images of two
\* elements have a point in common.
SpansOverlap(a, b) ==
    /\ SourceImage(a).y0 <= SourceImage(b).y0 + SourceImage(b).height
    /\ SourceImage(b).y0 <= SourceImage(a).y0 + SourceImage(a).height

\* Some paragraph of the document holds the pictures of both elements.
Coalesced(a, b) ==
    \E e \in 1..Len(docx_body) :
        /\ docx_body[e].kind = "images_inline"
        /\ \E k \in 1..Len(docx_body[e].paths) : docx_body[e].paths[k] = a.path
        /\ \E k \in 1..Len(docx_body[e].paths) : docx_body[e].paths[k] = b.path

\* The picture of the element is added exactly once, as an image of its own.
EmittedAlone(a) ==
    /\ Cardinality({e \in 1..Len(docx_body) :
                       \E k \in 1..Len(docx_body[e].paths) :
                           docx_body[e].paths[k] = a.path}) = 1
    /\ \E e \in 1..Len(docx_body) :
          docx_body[e] = [kind |-> "image", paths |-> <<a.path>>]

ConsecutiveImages ==
    {i \in 1..(Len(elements) - 1) :
        elements[i].type = "image" /\ elements[i + 1].type = "image"}

\* C25: on an element list produced by analyze, build puts two consecutive
\* image elements into one paragraph only if their vertical spans on the
\* page overlap, and emits consecutive images with disjoint spans as
\* separate images.
C25_CoalesceOnlyOverlappingAsStated ==
    pc = "build_done" =>
        \A i \in ConsecutiveImages :
            /\ Coalesced(elements[i], elements[i + 1])
                   => SpansOverlap(elements[i], elements[i + 1])
            /\ ~SpansOverlap(elements[i], elements[i + 1])
                   => EmittedAlone(elements[i]) /\ EmittedAlone(elements[i + 1])

\* What the code guarantees: analyze has popped _y0, so every span the
\* builder compares starts at 0 and two consecutive images are coalesced
\* exactly when both heights are positive.
CoalescedIffPositiveHeights ==
    pc = "build_done" =>
        \A i \in ConsecutiveImages :
            Coalesced(elements[i], elements[i + 1])
                <=> elements[i].height > 0 /\ elements[i + 1].height > 0

\* Two images far apart on the page end up in one paragraph.
DisjointImagesCoalesced ==
    /\ pc = "build_done"
    /\ text_blocks = <<>>
    /\ images = <<BuildImage(1, 100, 50), BuildImage(2, 300, 50)>>
    /\ docx_body = <<[kind |-> "images_inline",
                      paths |-> <<<<"p", "1">>, <<"p", "2">>>>]>>

\* With a line of text between them the same images are separate.
ImagesApartSeparate ==
    /\ pc = "build_done"
    /\ text_blocks # <<>>
    /\ images = <<BuildImage(1, 100, 50), BuildImage(2, 300, 50)>>
    /\ Len(docx_body) = 3
    /\ docx_body[1] = [kind |-> "image", paths |-> <<<<"p", "1">>>>]
    /\ docx_body[3] = [kind |-> "image", paths |-> <<<<"p", "2">>>>]


(***************************************************************************)
(* ConverterService and the routes that drive it                           *)
(*                                                                         *)
(* A job id stands for one upload request: uuid4 gives every request its   *)
(* own id.  upload_and_convert runs create_job, save_upload and start_job  *)
(* in this order; the worker thread, the SSE generator of a job and the    *)
(* delete route run concurrently with it and with each other.  jobs is the *)
(* key set of self._jobs; job_objects are the ConversionJob objects, which *)
(* outlive their entry in self._jobs while a thread holds a reference.     *)
(* An assignment to the status of a job is one step.                       *)
(***************************************************************************)
MaxJobs == 2
MaxCallbacks == 2

JobIds == 1..MaxJobs

\* ConversionJob.__init__
NewJob == [status |-> "queued", stage |-> "", progress |-> 0]

\* _progress_callback: the percentage of a stage; int(current / total * 60)
\* for the extraction.
StageProgress(stage, current, total, old) ==
    CASE stage = "extracting" /\ total # 0 -> (current * 60) \div total
      [] stage = "analyzing" -> 65
      [] stage = "building" -> 70
      [] stage = "complete" -> 100
      [] OTHER -> old

\* dict[key] = value
Put(dict, key, value) ==
    [k \in DOMAIN dict \cup {key} |-> IF k = key THEN value ELSE dict[k]]

\* The variant in which start_job is called again for a started job.
CanStartAgain(j) == requests[j] \in {"saved", "started"}

\* upload_and_convert and batch_upload reach start_job once, after
\* create_job and save_upload.
CanStart(j) == requests[j] = "saved"

InitJobs ==
    /\ pc = "serving"
    /\ text_blocks = <<>>
    /\ FontIdle
    /\ LayoutIdle
    /\ TableIdle
    /\ HFIdle
    /\ GroupIdle
    /\ DocIdle
    /\ SemIdle
    /\ ExtractIdle
    /\ FixIdle
    /\ StyleIdle
    /\ BuildIdle
    /\ jobs = {}
    /\ job_objects = <<>>
    /\ requests = [j \in JobIds |-> "new"]
    /\ threads = <<>>
    /\ streams = [j \in JobIds |-> "unopened"]

\* create_job: the job is constructed and stored under the lock.
UploadCreate(j) ==
    /\ requests[j] = "new"
    /\ job_objects' = Put(job_objects, j, NewJob)
    /\ jobs' = jobs \cup {j}
    /\ requests' = [requests EXCEPT ![j] = "created"]
    /\ UNCHANGED <<pc, text_blocks, fontVars, layoutVars, tableVars, semVars,
                   extractVars, fixVars, styleVars, buildVars, threads, streams>>

\* save_upload and the assignment of the paths.
UploadSave(j) ==
    /\ requests[j] = "created"
    /\ requests' = [requests EXCEPT ![j] = "saved"]
    /\ UNCHANGED <<pc, text_blocks, fontVars, layoutVars, tableVars, semVars,
                   extractVars, fixVars, styleVars, buildVars, jobs,
                   job_objects, threads, streams>>

\* start_job: get_job finds the job and the thread is started.
UploadStart(j) ==
    /\ CanStart(j)
    /\ j \in jobs
    /\ threads' = Put(threads, j, [at |-> "start", calls |-> 0])
    /\ requests' = [requests EXCEPT ![j] = "started"]
    /\ UNCHANGED <<pc, text_blocks, fontVars, layoutVars, tableVars, semVars,
                   extractVars, fixVars, styleVars, buildVars, jobs,
                   job_objects, streams>>

\* start_job: the job was deleted in between, ValueError.
UploadStartUnknown(j) ==
    /\ CanStart(j)
    /\ j \notin jobs
    /\ requests' = [requests EXCEPT ![j] = "error"]
    /\ UNCHANGED <<pc, text_blocks, fontVars, layoutVars, tableVars, semVars,
                   extractVars, fixVars, styleVars, buildVars, jobs,
                   job_objects, threads, streams>>

\* _run_conversion: job.status = "running"
WorkerStart(j) ==
    /\ j \in DOMAIN threads
    /\ threads[j].at = "start"
    /\ job_objects' = [job_objects EXCEPT ![j].status = "running"]
    /\ threads' = [threads EXCEPT ![j].at = "converting"]
    /\ UNCHANGED <<pc, text_blocks, fontVars, layoutVars, tableVars, semVars,
                   extractVars, fixVars, styleVars, buildVars, jobs, requests,
                   streams>>

\* convert_pdf calls _progress_callback("extracting", current, total, ...)
\* page after page; the document has MaxCallbacks pages.
WorkerProgress(j) ==
    /\ j \in DOMAIN threads
    /\ threads[j].at = "converting"
    /\ threads[j].calls < MaxCallbacks
    /\ job_objects' =
          [job_objects EXCEPT
              ![j].stage = "extracting",
              ![j].progress =
                  StageProgress("extracting", threads[j].calls + 1,
                                MaxCallbacks, job_objects[j].progress)]
    /\ threads' = [threads EXCEPT ![j].calls = threads[j].calls + 1]
    /\ UNCHANGED <<pc, text_blocks, fontVars, layoutVars, tableVars, semVars,
                   extractVars, fixVars, styleVars, buildVars, jobs, requests,
                   streams>>

\* convert_pdf returns: job.status = "complete"; job.progress = 100
WorkerComplete(j) ==
    /\ j \in DOMAIN threads
    /\ threads[j].at = "converting"
    /\ job_objects' = [job_objects EXCEPT ![j].status = "complete",
                                          ![j].progress = 100]
    /\ threads' = [threads EXCEPT ![j].at = "done"]
    /\ UNCHANGED <<pc, text_blocks, fontVars, layoutVars, tableVars, semVars,
                   extractVars, fixVars, styleVars, buildVars, jobs, requests,
                   streams>>

\* convert_pdf raises SystemExit or an Exception: job.status = "failed"
WorkerFail(j) ==
    /\ j \in DOMAIN threads
    /\ threads[j].at = "converting"
    /\ job_objects' = [job_objects EXCEPT ![j].status = "failed"]
    /\ threads' = [threads EXCEPT ![j].at = "done"]
    /\ UNCHANGED <<pc, text_blocks, fontVars, layoutVars, tableVars, semVars,
                   extractVars, fixVars, styleVars, buildVars, jobs, requests,
                   streams>>

\* job_status_sse: a client opens the stream of a job id.
StreamOpen(j) ==
    /\ streams[j] = "unopened"
    /\ streams' = [streams EXCEPT ![j] = "open"]
    /\ UNCHANGED <<pc, text_blocks, fontVars, layoutVars, tableVars, semVars,
                   extractVars, fixVars, styleVars, buildVars, jobs,
                   job_objects, requests, threads>>

\* One round of generate(): the job is looked up and its state is read; the
\* stream ends for an unknown or a finished job and sleeps otherwise.  What
\* was sent last is not part of the model.
StreamPoll(j) ==
    /\ streams[j] = "open"
    /\ streams' =
          [streams EXCEPT
              ![j] = IF j \notin jobs THEN "closed"
                     ELSE IF job_objects[j].status \in {"complete", "failed"}
                     THEN "closed" ELSE "open"]
    /\ UNCHANGED <<pc, text_blocks, fontVars, layoutVars, tableVars, semVars,
                   extractVars, fixVars, styleVars, buildVars, jobs,
                   job_objects, requests, threads>>

\* delete_job of a known job: the entry is popped under the lock; the
\* object stays with the threads that hold it.
DeleteJob(j) ==
    /\ j \in jobs
    /\ jobs' = jobs \ {j}
    /\ UNCHANGED <<pc, text_blocks, fontVars, layoutVars, tableVars, semVars,
                   extractVars, fixVars, styleVars, buildVars, job_objects,
                   requests, threads, streams>>

NextJobs ==
    \E j \in JobIds :
        \/ UploadCreate(j)
        \/ UploadSave(j)
        \/ UploadStart(j)
        \/ UploadStartUnknown(j)
        \/ WorkerStart(j)
        \/ WorkerProgress(j)
        \/ WorkerComplete(j)
        \/ WorkerFail(j)
        \/ StreamOpen(j)
        \/ StreamPoll(j)
        \/ DeleteJob(j)

SpecJobs == InitJobs /\ [][NextJobs]_vars

\* The steps the status of a job may take.
StatusSteps ==
    {<<"queued", "running">>, <<"running", "complete">>, <<"running", "failed">>}

\* C26: the status of a job only moves queued -> running -> complete or
\* failed, whatever the interleaving of the requests, the worker threads,
\* the status streams and the deletions; a job that is complete or failed
\* keeps its status.
C26_StatusMovesForwardOnly ==
    [][\A j \in DOMAIN job_objects :
          job_objects'[j].status # job_objects[j].status
              => <<job_objects[j].status, job_objects'[j].status>> \in StatusSteps]_vars

\* A job is complete, was deleted afterwards and its stream has ended, and
\* another job has failed.
C26_Witness ==
    \E j \in DOMAIN job_objects, k \in DOMAIN job_objects :
        /\ job_objects[j].status = "complete"
        /\ j \notin jobs
        /\ streams[j] = "closed"
        /\ job_objects[j].progress = 100
        /\ job_objects[k].status = "failed"


(***************************************************************************)
(* analyze on a page of paragraphs, list items and headings in two columns *)
(***************************************************************************)
MaxTextLines == 3

\* What the left column carries on a line: nothing, a line of text or a
\* bullet item; the right column: nothing, a line of text or a title in
\* the heading font.
LeftKinds == {"none", "line", "bullet"}
RightKinds == {"none", "line", "title"}

\* The span of column c on line i; the lines of the right column lie six
\* points lower.
TextSpan(kind, c, i) ==
    LET y0 == LineY0(i) + (IF c = 2 THEN 6 ELSE 0)
        x0 == ColumnX0[c]
        size == IF kind = "title" THEN 14 ELSE 10
        text == CASE kind = "bullet" -> <<"-", " ", "a">>
                  [] kind = "title" -> <<"T">>
                  [] OTHER -> <<"a", "b">>
    IN  Span(text, <<"T">>, size, FALSE, FALSE, x0, y0, x0 + 200, y0 + size, 0)

\* The spans of the page, sorted by y.
RECURSIVE TextLinesBlocks(_, _, _)
TextLinesBlocks(left, right, n) ==
    IF n = 0 THEN <<>>
    ELSE TextLinesBlocks(left, right, n - 1)
         \o (IF left[n] = "none" THEN <<>> ELSE <<TextSpan(left[n], 1, n)>>)
         \o (IF right[n] = "none" THEN <<>> ELSE <<TextSpan(right[n], 2, n)>>)

InitContent ==
    /\ pc = "page_start"
    /\ \E left \in [1..MaxTextLines -> LeftKinds] :
       \E right \in [1..MaxTextLines -> RightKinds] :
          text_blocks = TextLinesBlocks(left, right, MaxTextLines)
    /\ page_width = 612
    /\ page_height = 792
    /\ clusters = Idle
    /\ layout = Idle
    /\ font_size_counter = Idle
    /\ body_font = [name |-> <<"T">>, size |-> 10]
    /\ heading_fonts = <<[name |-> <<"T">>, size |-> 14, level |-> 1]>>
    /\ num_columns = 0
    /\ DocIdle
    /\ TableIdle
    /\ ExtractIdle
    /\ FixIdle
    /\ StyleIdle
    /\ BuildIdle
    /\ WebIdle
    /\ HFIdle
    /\ links = Idle
    /\ body_x0 = 0
    /\ groups = Idle
    /\ elements = Idle
    /\ regrouped = Idle

SpecContent == InitContent /\ [][NextPage]_vars

\* The places (element, position in its group) where the span is a
\* constituent.
PlacesOf(block) ==
    {<<e, b>> \in (1..Len(groups)) \X (1..Len(text_blocks)) :
        b <= Len(groups[e]) /\ groups[e][b] = block}

\* The element is the one made from its group: its text is the joined text
\* of the group's spans (after the bullet, for a list item), and a
\* paragraph has one run with the box of each span.
MadeFromGroup(e) ==
    /\ elements[e].type \in {"heading", "list_item", "paragraph"}
    /\ \A b \in 1..Len(groups[e]) : groups[e][b].page_num = elements[e].page_num
    /\ elements[e].type \in {"heading", "paragraph"}
          => elements[e].text = GroupText(groups[e])
    /\ elements[e].type = "list_item"
          => /\ IsListStart(GroupText(groups[e]))
             /\ Find(GroupText(groups[e]), elements[e].text) >= 0
    /\ elements[e].type = "paragraph"
          => \A b \in 1..Len(groups[e]) :
                Cardinality({r \in 1..Len(elements[e].runs) :
                                /\ Get(elements[e].runs[r], "x0", 0 - 1) = groups[e][b].x0
                                /\ Get(elements[e].runs[r], "y0", 0 - 1) = groups[e][b].y0
                                /\ Strip(elements[e].runs[r].text) = Strip(groups[e][b].text)})
                    = 1

\* C29: no text is lost or duplicated: every span of the page is a
\* constituent of exactly one emitted heading, list item or paragraph, and
\* that element has the span's page_num; on single-column pages, on pages
\* whose columns are accepted and on pages whose columns are rejected.
C29_NoTextLostOrDuplicated ==
    pc = "page_done" =>
        /\ Len(elements) = Len(groups)
        /\ \A e \in 1..Len(elements) : MadeFromGroup(e)
        /\ \A i \in 1..Len(text_blocks) :
              Cardinality(PlacesOf(text_blocks[i])) = 1

\* Two accepted columns of three lines with a bullet item on the left and
\* a title on the right.
C29_Witness ==
    /\ pc = "page_done"
    /\ num_columns = 2
    /\ Len(text_blocks) = 6
    /\ \E e \in 1..Len(elements) : elements[e].type = "list_item"
    /\ \E e \in 1..Len(elements) : elements[e].type = "heading"
    /\ \E e \in 1..Len(elements) : elements[e].type = "paragraph"

\* Columns that the validation rejects: the spans of both are grouped as
\* one column and none is lost.
C29_WitnessRejected ==
    /\ pc = "page_done"
    /\ Len(text_blocks) = 5
    /\ layout.num_columns = 2
    /\ num_columns = 1

====
